---- MODULE Spec2Model ----
(***************************************************************************)
(* ExistChat: the message store (lib/redis.ts), the combined polling       *)
(* endpoint (api/poll), the address-bound registration (api/auth), the     *)
(* room endpoints (api/rooms), the user directory (api/users) and the      *)
(* client hooks (usePolling, useRoomMessages, useSSE), as state machines.  *)
(* Times are milliseconds.                                                 *)
(***************************************************************************)
EXTENDS Integers, Sequences, FiniteSets, TLC

(***************************************************************************)
(* Program constants                                                       *)
(***************************************************************************)
ONE_HOUR == 60 * 60 * 1000
CLEANUP_INTERVAL == 5 * 60 * 1000
TWO_MINUTES == 2 * 60 * 1000
DEFAULT_ROOM == "general"
INTERVAL == 2000
USERNAME_MIN == 3
USERNAME_MAX == 20
ROOM_NAME_MIN == 3
ROOM_NAME_MAX == 30
RECONNECT_DELAY == 5000
HEARTBEAT_TIMEOUT == 30000

(***************************************************************************)
(* Bounds of the model                                                     *)
(***************************************************************************)
MaxTicks == 1
MaxMsgs == 3
MaxPollMsgs == 1
MaxPurges == 2
MaxPolls == 3
MaxSends == 1
MaxAccounts == 2
MaxWrites == 3
MaxSseTime == 40000
MaxSseEvents == 2
MaxFetches == 5

AuthSlots == {1, 2}
MemberSlots == {1, 2}
Addresses == {"10.0.0.1", "10.0.0.2"}

T0 == 2 * ONE_HOUR
Procs == {1, 2}
RoomOrder == <<"general", "dev">>
RoomIds == {RoomOrder[i] : i \in 1..Len(RoomOrder)}
UserIds == {"u1", "u2"}

VARIABLES
  now,              \* Date.now()
  ticks,            \* number of clock advances so far
  msgs,             \* room id -> the room's message list in the store
  appended,         \* room id -> every message ever appended, in order (history)
  published,        \* number of notifications published on chat:updates
  users,            \* the user directory hash: user id -> [name, lastSeen]
  rooms,            \* the room hash: room id -> room record
  post,             \* the POST /poll request being handled, and its answer
  lastCleanupTime,  \* module-level variable of api/poll
  req,              \* GET /poll requests being handled, per handler slot
  resp,             \* the last GET /poll response of each slot
  purgeStarts,      \* times at which purges were started (history)
  purgeLog,         \* per slot: the last single-list purge, before and after
  cMounted,         \* usePolling: the hook is mounted
  inflight,         \* usePolling: the GET /poll fetches awaiting their answer
  sending,          \* usePolling: the POST /poll fetches of sendMessage in flight
  timers,           \* the browser's pending timeouts: handle -> delay
  pollTimeoutRef,   \* usePolling: pollTimeoutRef.current (0 is null)
  lastPollTimestamp,\* usePolling: lastPollTimestamp.current
  shown,            \* usePolling: server time of the answer whose messages are shown
  srvTime,          \* the server's clock as seen in the answers to this client
  started,          \* number of polls and sends started so far (history)
  lastDone,         \* the poll that completed last, and how (history)
  accounts,         \* the account directory: account id -> account record
  ipToUser,         \* the address mapping: network address -> account id
  areq,             \* POST /auth requests being handled, per handler slot
  mreq,             \* PUT /rooms requests being handled, per handler slot
  rreq,             \* GET, POST, DELETE /rooms requests being handled, per slot
  ureq,             \* /users requests and user sweeps being handled, per slot
  eventSource,      \* useSSE: the connection the effect holds (0 is null)
  reconnectTimeout, \* useSSE: handle of the last reconnect timeout (0 is null)
  heartbeatTimeout, \* useSSE: handle of the last heartbeat timeout (0 is null)
  sseOpen,          \* the EventSource objects that are not closed
  sseTimers,        \* useSSE: pending timeouts: handle -> [fn, due]
  sseClock,         \* the browser's clock
  sseLog,           \* useSSE: what happened last, and counters (history)
  rm,               \* useRoomMessages: the hook's props, refs, fetches and timeouts
  delivered         \* the messages a since-chaining client got in newMessages (history)

storeVars == <<msgs, appended, published, users, rooms>>
postVars == <<post>>
pollVars == <<lastCleanupTime, req, resp, purgeStarts, purgeLog>>
clockVars == <<now, ticks>>
clientVars == <<cMounted, inflight, sending, timers, pollTimeoutRef,
                lastPollTimestamp, shown, srvTime, started, lastDone>>
authVars == <<accounts, ipToUser, areq>>
memberVars == <<mreq>>
routeVars == <<rreq, ureq>>
sseVars == <<eventSource, reconnectTimeout, heartbeatTimeout, sseOpen, sseTimers,
             sseClock, sseLog>>
hookVars == <<sseVars, rm, delivered>>
offServer == <<clientVars, authVars, memberVars, routeVars, hookVars>>
serverVars == <<now, ticks, msgs, appended, published, users, rooms, post,
                lastCleanupTime, req, resp, purgeStarts, purgeLog>>

(***************************************************************************)
(* lib/redis.ts: the message list                                          *)
(***************************************************************************)
Range(s) == {s[i] : i \in 1..Len(s)}

\* redis LREM key 1 value: remove the first element equal to v
RECURSIVE LRem(_, _)
LRem(list, v) ==
  IF list = <<>> THEN <<>>
  ELSE IF Head(list) = v THEN Tail(list)
  ELSE <<Head(list)>> \o LRem(Tail(list), v)

\* redis LINDEX key i (0-based i = idx - 1): the element, or null (<<>>)
LIndex(list, idx) == IF idx \in 1..Len(list) THEN <<list[idx]>> ELSE <<>>

\* getMessages: the list filtered to the last hour
getMessages(list, t) ==
  SelectSeq(list, LAMBDA m : m.timestamp >= t - ONE_HOUR)

\* deleteOldMessages: positions (in the LRANGE snapshot) older than an hour
RECURSIVE messagesToDeleteFrom(_, _, _)
messagesToDeleteFrom(list, i, t) ==
  IF i > Len(list) THEN <<>>
  ELSE (IF list[i].timestamp < t - ONE_HOUR THEN <<i>> ELSE <<>>)
         \o messagesToDeleteFrom(list, i + 1, t)

messagesToDelete(list, t) == messagesToDeleteFrom(list, 1, t)

\* GET /poll: the `timestamp > since` filter
newMessagesOf(messages, since) ==
  SelectSeq(messages, LAMBDA m : m.timestamp > since)

\* (mutant) the online list uses the five-minute threshold of the sweep
onlineUsersOf_SweepThreshold(allUsers, t) ==
  {u \in allUsers : u.lastSeen > t - 5 * 60 * 1000}

\* GET /poll: users active in the last 2 minutes
onlineUsersOf(allUsers, t) == {u \in allUsers : u.lastSeen > t - TWO_MINUTES}

\* getUsers: the directory as a collection of {id, name, lastSeen}
getUsers == {[id |-> u, name |-> users[u].name, lastSeen |-> users[u].lastSeen] :
               u \in DOMAIN users}

\* getChatrooms: every room record
getChatrooms == {rooms[r] : r \in DOMAIN rooms}

\* getUsersInRoom: the directory entries of the room's members
getUsersInRoom(roomId) ==
  IF roomId \in DOMAIN rooms
  THEN {u \in getUsers : u.id \in Range(rooms[roomId].members)}
  ELSE {}

TotalMsgs == Len(appended["general"]) + Len(appended["dev"])

(***************************************************************************)
(* The clock                                                               *)
(***************************************************************************)
Tick(d) ==
  /\ ticks < MaxTicks
  /\ now' = now + d
  /\ ticks' = ticks + 1
  /\ UNCHANGED <<offServer, storeVars, postVars, pollVars>>

(***************************************************************************)
(* POST /poll, kind `message`                                              *)
(***************************************************************************)
NoMessage == [id |-> "", content |-> "", sender |-> "", senderId |-> "",
              timestamp |-> 0, type |-> "", roomId |-> "", file |-> ""]
IdlePost == [pc |-> "idle", status |-> 0, message |-> NoMessage]

\* a purge that is between its LRANGE and its return sees the list change
Interfere(log, roomId, except) ==
  [q \in Procs |->
     IF q # except /\ log[q].room = roomId /\ ~log[q].done
     THEN [log[q] EXCEPT !.interfered = TRUE] ELSE log[q]]

\* (mutant) the sender identifier is not required
PostMessageBegin_NoSenderIdCheck(data) ==
  /\ post.pc = "idle"
  /\ IF data.content = "" /\ data.file = ""
     THEN post' = [pc |-> "done", status |-> 400, message |-> NoMessage]
     ELSE IF data.sender = ""
     THEN post' = [pc |-> "done", status |-> 400, message |-> NoMessage]
     ELSE /\ TotalMsgs < MaxMsgs
          /\ post' = [pc |-> "rpush", status |-> 0,
                      message |->
                        [data EXCEPT
                           !.timestamp = IF @ = 0 THEN now ELSE @,
                           !.id = IF @ = "" THEN ToString(now) ELSE @,
                           !.type = IF @ = "" THEN "message" ELSE @,
                           !.roomId = IF @ = "" THEN DEFAULT_ROOM ELSE @]]
  /\ UNCHANGED <<offServer, clockVars, storeVars, pollVars>>

\* (mutant) a missing id is left empty
PostMessageBegin_NoIdDefault(data) ==
  /\ post.pc = "idle"
  /\ IF data.content = "" /\ data.file = ""
     THEN post' = [pc |-> "done", status |-> 400, message |-> NoMessage]
     ELSE IF data.sender = "" \/ data.senderId = ""
     THEN post' = [pc |-> "done", status |-> 400, message |-> NoMessage]
     ELSE /\ TotalMsgs < MaxMsgs
          /\ post' = [pc |-> "rpush", status |-> 0,
                      message |->
                        [data EXCEPT
                           !.timestamp = IF @ = 0 THEN now ELSE @,
                           !.id = @,
                           !.type = IF @ = "" THEN "message" ELSE @,
                           !.roomId = IF @ = "" THEN DEFAULT_ROOM ELSE @]]
  /\ UNCHANGED <<offServer, clockVars, storeVars, pollVars>>

\* (mutant) a message with neither content nor file is accepted
PostMessageBegin_NoContentCheck(data) ==
  /\ post.pc = "idle"
  /\ IF FALSE
     THEN post' = [pc |-> "done", status |-> 400, message |-> NoMessage]
     ELSE IF data.sender = "" \/ data.senderId = ""
     THEN post' = [pc |-> "done", status |-> 400, message |-> NoMessage]
     ELSE /\ TotalMsgs < MaxMsgs
          /\ post' = [pc |-> "rpush", status |-> 0,
                      message |->
                        [data EXCEPT
                           !.timestamp = IF @ = 0 THEN now ELSE @,
                           !.id = IF @ = "" THEN ToString(now) ELSE @,
                           !.type = IF @ = "" THEN "message" ELSE @,
                           !.roomId = IF @ = "" THEN DEFAULT_ROOM ELSE @]]
  /\ UNCHANGED <<offServer, clockVars, storeVars, pollVars>>

\* lines 113-143: validation and defaults, up to the call of addMessage
PostMessageBegin(data) ==
  /\ post.pc = "idle"
  /\ IF data.content = "" /\ data.file = ""
     THEN post' = [pc |-> "done", status |-> 400, message |-> NoMessage]
     ELSE IF data.sender = "" \/ data.senderId = ""
     THEN post' = [pc |-> "done", status |-> 400, message |-> NoMessage]
     ELSE /\ TotalMsgs < MaxMsgs
          /\ post' = [pc |-> "rpush", status |-> 0,
                      message |->
                        [data EXCEPT
                           !.timestamp = IF @ = 0 THEN now ELSE @,
                           !.id = IF @ = "" THEN ToString(now) ELSE @,
                           !.type = IF @ = "" THEN "message" ELSE @,
                           !.roomId = IF @ = "" THEN DEFAULT_ROOM ELSE @]]
  /\ UNCHANGED <<offServer, clockVars, storeVars, pollVars>>

\* addMessage: RPUSH
PostMessageRpush ==
  /\ post.pc = "rpush"
  /\ LET m == post.message IN
       /\ msgs' = [msgs EXCEPT ![m.roomId] = Append(@, m)]
       /\ appended' = [appended EXCEPT ![m.roomId] = Append(@, m)]
       /\ purgeLog' = Interfere(purgeLog, m.roomId, 0)
  /\ post' = [post EXCEPT !.pc = "publish"]
  /\ UNCHANGED <<offServer, clockVars, published, users, rooms,
                 lastCleanupTime, req, resp, purgeStarts>>

\* addMessage: PUBLISH, then the 200 answer
PostMessagePublish ==
  /\ post.pc = "publish"
  /\ published' = published + 1
  /\ post' = [post EXCEPT !.pc = "done", !.status = 200]
  /\ UNCHANGED <<offServer, clockVars, msgs, appended, users, rooms, pollVars>>

\* addMessage: RPUSH or PUBLISH throws, addMessage returns false, 500
PostMessageFail ==
  /\ post.pc \in {"rpush", "publish"}
  /\ post' = [pc |-> "done", status |-> 500, message |-> NoMessage]
  /\ UNCHANGED <<offServer, clockVars, storeVars, pollVars>>

\* the answer has been sent
PostClose ==
  /\ post.pc = "done"
  /\ post' = IdlePost
  /\ UNCHANGED <<offServer, clockVars, storeVars, pollVars>>

(***************************************************************************)
(* GET /poll                                                               *)
(***************************************************************************)
NoView == [messages |-> <<>>, usersInRoom |-> {}, allUsers |-> {}, rooms |-> {}]
IdleReq == [pc |-> "idle", now |-> 0, since |-> 0, roomId |-> "",
            left |-> <<>>, toDelete |-> <<>>, cur |-> <<>>, purged |-> FALSE,
            messages |-> <<>>, usersInRoom |-> {}, allUsers |-> {},
            rooms |-> {}, failed |-> {}, view |-> NoView]
IdleLog == [room |-> "", before |-> <<>>, t |-> 0, after |-> <<>>,
            done |-> TRUE, interfered |-> FALSE, storeFailed |-> FALSE]
NoResp == [status |-> 0, messages |-> <<>>, newMessages |-> <<>>,
           usersInRoom |-> {}, onlineUsers |-> {}, rooms |-> {},
           timestamp |-> 0]

\* the `since` values a client sends: none ("0"), or an earlier answer's timestamp
SinceValues == {0, T0}

\* lines 24-39: parameters, and the lastCleanupTime gate up to the call of the purge
PollBegin(p, since, roomParam) ==
  /\ req[p].pc = "idle"
  /\ LET roomId == IF roomParam = "" THEN DEFAULT_ROOM ELSE roomParam
         gate == now - lastCleanupTime > CLEANUP_INTERVAL
     IN /\ gate => Len(purgeStarts) < MaxPurges
        /\ req' = [req EXCEPT ![p] =
                     [IdleReq EXCEPT !.pc = IF gate THEN "cleanup" ELSE "messages",
                                     !.now = now, !.since = since,
                                     !.roomId = roomId,
                                     !.left = IF gate THEN RoomOrder ELSE <<>>]]
        /\ purgeStarts' = IF gate THEN Append(purgeStarts, now) ELSE purgeStarts
  /\ UNCHANGED <<offServer, clockVars, storeVars, postVars, lastCleanupTime, resp, purgeLog>>

\* deleteAllOldMessages: the next room, or the return to the handler
AfterRoom(r) ==
  IF Tail(r.left) = <<>>
  THEN [r EXCEPT !.left = <<>>, !.toDelete = <<>>, !.cur = <<>>,
                 !.pc = "messages", !.purged = TRUE]
  ELSE [r EXCEPT !.left = Tail(@), !.toDelete = <<>>, !.cur = <<>>,
                 !.pc = "cleanup"]

\* deleteOldMessages: the next iteration of the deletion loop, or the return
AfterItem(r) ==
  IF Tail(r.toDelete) # <<>>
  THEN [r EXCEPT !.toDelete = Tail(@), !.cur = <<>>, !.pc = "lindex"]
  ELSE AfterRoom(r)

\* the handler's `lastCleanupTime = now` once the purge has returned
CleanupEffects(p, r2, list2, failedOp) ==
  /\ req' = [req EXCEPT ![p] = r2]
  /\ lastCleanupTime' = IF r2.pc = "messages" THEN req[p].now ELSE lastCleanupTime
  /\ purgeLog' =
       [q \in Procs |->
          IF q = p
          THEN [purgeLog[p] EXCEPT
                  !.storeFailed = @ \/ failedOp,
                  !.done = r2.pc # "lindex" /\ r2.pc # "lrem",
                  !.after = IF r2.pc # "lindex" /\ r2.pc # "lrem" THEN list2 ELSE @]
          ELSE IF list2 # msgs[purgeLog[p].room] /\ purgeLog[q].room = purgeLog[p].room
                  /\ ~purgeLog[q].done
          THEN [purgeLog[q] EXCEPT !.interfered = TRUE]
          ELSE purgeLog[q]]

\* deleteOldMessages lines 97-112: LRANGE and the list of positions to delete
CleanupLrange(p) ==
  /\ req[p].pc = "cleanup"
  /\ LET room == Head(req[p].left)
         list == msgs[room]
         td == messagesToDelete(list, now)
         r1 == [req[p] EXCEPT !.toDelete = td, !.pc = "lindex"]
         r2 == IF td = <<>> THEN AfterRoom(r1) ELSE r1
     IN /\ req' = [req EXCEPT ![p] = r2]
        /\ lastCleanupTime' = IF r2.pc = "messages" THEN req[p].now
                              ELSE lastCleanupTime
        /\ purgeLog' = [purgeLog EXCEPT ![p] =
                          [room |-> room, before |-> list, t |-> now,
                           after |-> list, done |-> td = <<>>,
                           interfered |-> FALSE, storeFailed |-> FALSE]]
  /\ UNCHANGED <<offServer, clockVars, storeVars, postVars, resp, purgeStarts>>

\* deleteOldMessages line 118: LINDEX at the position found in the snapshot
CleanupLindex(p) ==
  /\ req[p].pc = "lindex"
  /\ LET room == Head(req[p].left)
         at == LIndex(msgs[room], Head(req[p].toDelete))
         r2 == IF at = <<>> THEN AfterItem(req[p])
               ELSE [req[p] EXCEPT !.cur = at, !.pc = "lrem"]
     IN CleanupEffects(p, r2, msgs[room], FALSE)
  /\ UNCHANGED <<offServer, clockVars, storeVars, postVars, resp, purgeStarts>>

\* deleteOldMessages line 121: LREM of the value LINDEX returned
CleanupLrem(p) ==
  /\ req[p].pc = "lrem"
  /\ LET room == Head(req[p].left)
         list2 == LRem(msgs[room], req[p].cur[1])
     IN /\ msgs' = [msgs EXCEPT ![room] = list2]
        /\ CleanupEffects(p, AfterItem(req[p]), list2, FALSE)
  /\ UNCHANGED <<offServer, clockVars, appended, published, users, rooms, postVars, resp,
                 purgeStarts>>

\* deleteOldMessages lines 124-126: a failed LINDEX or LREM is logged and skipped
CleanupOpFail(p) ==
  /\ req[p].pc \in {"lindex", "lrem"}
  /\ CleanupEffects(p, AfterItem(req[p]), msgs[Head(req[p].left)], TRUE)
  /\ UNCHANGED <<offServer, clockVars, storeVars, postVars, resp, purgeStarts>>

\* GET lines 36-38: the purge rejects, lastCleanupTime stays
CleanupThrow(p) ==
  /\ req[p].pc = "cleanup"
  /\ req' = [req EXCEPT ![p] = [@ EXCEPT !.pc = "messages", !.left = <<>>,
                                         !.failed = @ \cup {"cleanup"}]]
  /\ UNCHANGED <<offServer, clockVars, storeVars, postVars, lastCleanupTime, resp,
                 purgeStarts, purgeLog>>

\* GET lines 41-48
FetchMessages(p, fails) ==
  /\ req[p].pc = "messages"
  /\ LET got == getMessages(msgs[req[p].roomId], now) IN
       req' = [req EXCEPT ![p] =
                 [@ EXCEPT !.pc = "usersInRoom",
                           !.messages = IF fails THEN <<>> ELSE got,
                           !.failed = IF fails THEN @ \cup {"messages"} ELSE @,
                           !.view = [@ EXCEPT !.messages = got]]]
  /\ UNCHANGED <<offServer, clockVars, storeVars, postVars, lastCleanupTime, resp,
                 purgeStarts, purgeLog>>

\* GET lines 50-57
FetchUsersInRoom(p, fails) ==
  /\ req[p].pc = "usersInRoom"
  /\ LET got == getUsersInRoom(req[p].roomId) IN
       req' = [req EXCEPT ![p] =
                 [@ EXCEPT !.pc = "users",
                           !.usersInRoom = IF fails THEN {} ELSE got,
                           !.failed = IF fails THEN @ \cup {"usersInRoom"} ELSE @,
                           !.view = [@ EXCEPT !.usersInRoom = got]]]
  /\ UNCHANGED <<offServer, clockVars, storeVars, postVars, lastCleanupTime, resp,
                 purgeStarts, purgeLog>>

\* GET lines 59-66
FetchUsers(p, fails) ==
  /\ req[p].pc = "users"
  /\ LET got == getUsers IN
       req' = [req EXCEPT ![p] =
                 [@ EXCEPT !.pc = "rooms",
                           !.allUsers = IF fails THEN {} ELSE got,
                           !.failed = IF fails THEN @ \cup {"allUsers"} ELSE @,
                           !.view = [@ EXCEPT !.allUsers = got]]]
  /\ UNCHANGED <<offServer, clockVars, storeVars, postVars, lastCleanupTime, resp,
                 purgeStarts, purgeLog>>

\* GET lines 68-75
FetchRooms(p, fails) ==
  /\ req[p].pc = "rooms"
  /\ LET got == getChatrooms IN
       req' = [req EXCEPT ![p] =
                 [@ EXCEPT !.pc = "respond",
                           !.rooms = IF fails THEN {} ELSE got,
                           !.failed = IF fails THEN @ \cup {"rooms"} ELSE @,
                           !.view = [@ EXCEPT !.rooms = got]]]
  /\ UNCHANGED <<offServer, clockVars, storeVars, postVars, lastCleanupTime, resp,
                 purgeStarts, purgeLog>>

\* (mutant) one failed sub-fetch empties the whole answer
PollResponse_AllOrNothing(r, t) ==
  IF r.failed \ {"cleanup"} # {}
  THEN [status |-> 200, messages |-> <<>>, newMessages |-> <<>>,
        usersInRoom |-> {}, onlineUsers |-> {}, rooms |-> {}, timestamp |-> t]
  ELSE [status |-> 200,
        messages |-> r.messages,
        newMessages |-> newMessagesOf(r.messages, r.since),
        usersInRoom |-> r.usersInRoom,
        onlineUsers |-> onlineUsersOf(r.allUsers, t),
        rooms |-> r.rooms,
        timestamp |-> t]

\* GET lines 77-91: the two filters and the JSON answer
PollResponse(r, t) ==
  [status |-> 200,
   messages |-> r.messages,
   newMessages |-> newMessagesOf(r.messages, r.since),
   usersInRoom |-> r.usersInRoom,
   onlineUsers |-> onlineUsersOf(r.allUsers, t),
   rooms |-> r.rooms,
   timestamp |-> t]

Respond(p) ==
  /\ req[p].pc = "respond"
  /\ resp' = [resp EXCEPT ![p] = PollResponse(req[p], now)]
  /\ req' = [req EXCEPT ![p] = [@ EXCEPT !.pc = "done"]]
  /\ UNCHANGED <<offServer, clockVars, storeVars, postVars, lastCleanupTime, purgeStarts,
                 purgeLog>>

\* the answer has been sent and the handler's locals are gone
Close(p) ==
  /\ req[p].pc = "done"
  /\ req' = [req EXCEPT ![p] = IdleReq]
  /\ resp' = [resp EXCEPT ![p] = NoResp]
  /\ purgeLog' = [purgeLog EXCEPT ![p] = IdleLog]
  /\ UNCHANGED <<offServer, clockVars, storeVars, postVars, lastCleanupTime, purgeStarts>>

(***************************************************************************)
(* The server: the store, POST /poll and GET /poll                         *)
(***************************************************************************)
MIN3 == 3 * 60 * 1000
InitUsers == [u \in UserIds |->
                IF u = "u1" THEN [name |-> "Alice", lastSeen |-> T0]
                ELSE [name |-> "Bob", lastSeen |-> T0 - MIN3]]
InitRooms == [r \in RoomIds |->
                [id |-> r, name |-> r, description |-> "", createdBy |-> "u1",
                 isPrivate |-> FALSE,
                 members |-> IF r = "general" THEN <<"u1">> ELSE <<>>,
                 createdAt |-> T0]]

\* timestamps a client may put on a message: none, or one expired at T0
ClientTimestamps == {0, T0 - ONE_HOUR - 1}
MessageInputs ==
  {[id |-> "", content |-> "hi", sender |-> "Alice", senderId |-> "u1",
    timestamp |-> ts, type |-> "", roomId |-> r, file |-> ""] :
     ts \in ClientTimestamps, r \in {"", "dev"}}

ServerInit ==
  /\ now = T0
  /\ ticks = 0
  /\ msgs = [r \in RoomIds |-> <<>>]
  /\ appended = [r \in RoomIds |-> <<>>]
  /\ published = 0
  /\ users = InitUsers
  /\ rooms = InitRooms
  /\ post = IdlePost
  /\ lastCleanupTime = 0
  /\ req = [p \in Procs |-> IdleReq]
  /\ resp = [p \in Procs |-> NoResp]
  /\ purgeStarts = <<>>
  /\ purgeLog = [p \in Procs |-> IdleLog]



\* no request is being handled
Quiet == post.pc = "idle" /\ \A p \in Procs : req[p].pc = "idle"

\* the server handling one request at a time, no sub-fetch failing
StoreNext ==
  \/ Quiet /\ Tick(ONE_HOUR)
  \/ \E data \in MessageInputs : Quiet /\ PostMessageBegin(data)
  \/ PostMessageRpush
  \/ PostMessagePublish
  \/ PostMessageFail
  \/ PostClose
  \/ \E roomParam \in {"", "dev"} : Quiet /\ PollBegin(1, 0, roomParam)
  \/ CleanupLrange(1)
  \/ CleanupLindex(1)
  \/ CleanupLrem(1)
  \/ CleanupOpFail(1)
  \/ FetchMessages(1, FALSE)
  \/ FetchUsersInRoom(1, FALSE)
  \/ FetchUsers(1, FALSE)
  \/ FetchRooms(1, FALSE)
  \/ Respond(1)
  \/ Close(1)


\* one poller whose sub-fetches and purge may fail
FailNext ==
  \/ Quiet /\ Tick(ONE_HOUR + 1)
  \/ \E data \in MessageInputs :
       /\ Quiet /\ data.timestamp = 0 /\ data.roomId = "" /\ TotalMsgs < MaxPollMsgs
       /\ PostMessageBegin(data)
  \/ PostMessageRpush
  \/ PostMessagePublish
  \/ PostClose
  \/ \E roomParam \in {"", "dev"}, since \in SinceValues : PollBegin(1, since, roomParam)
  \/ CleanupLrange(1)
  \/ CleanupLindex(1)
  \/ CleanupLrem(1)
  \/ CleanupOpFail(1)
  \/ CleanupThrow(1)
  \/ \E fails \in BOOLEAN : FetchMessages(1, fails)
  \/ \E fails \in BOOLEAN : FetchUsersInRoom(1, fails)
  \/ \E fails \in BOOLEAN : FetchUsers(1, fails)
  \/ \E fails \in BOOLEAN : FetchRooms(1, fails)
  \/ Respond(1)
  \/ Close(1)


\* concurrent pollers over a store of at most MaxPollMsgs messages
PollNext ==
  \/ Tick(CLEANUP_INTERVAL + 1)
  \/ \E data \in MessageInputs : Quiet /\ TotalMsgs < MaxPollMsgs /\ PostMessageBegin(data)
  \/ PostMessageRpush
  \/ PostMessagePublish
  \/ PostClose
  \/ \E p \in Procs : PollBegin(p, 0, "")
  \/ \E p \in Procs : CleanupLrange(p)
  \/ \E p \in Procs : CleanupLindex(p)
  \/ \E p \in Procs : CleanupLrem(p)
  \/ \E p \in Procs : FetchMessages(p, FALSE)
  \/ \E p \in Procs : FetchUsersInRoom(p, FALSE)
  \/ \E p \in Procs : FetchUsers(p, FALSE)
  \/ \E p \in Procs : FetchRooms(p, FALSE)
  \/ \E p \in Procs : Respond(p)
  \/ \E p \in Procs : Close(p)


(***************************************************************************)
(* usePolling: the client polling hook                                     *)
(***************************************************************************)
\* a handle that setTimeout has not returned yet
FreshHandle == CHOOSE h \in 1..(MaxPolls + 1) : h > pollTimeoutRef /\ h \notin DOMAIN timers

\* clearTimeout(h): a pending timeout is dropped, anything else is ignored
ClearTimeout(ts, h) == [k \in DOMAIN ts \ {h} |-> ts[k]]

\* setTimeout(pollForUpdates, delay) with handle h
SetTimeout(ts, h, delay) == [k \in DOMAIN ts \cup {h} |-> IF k = h THEN delay ELSE ts[k]]

\* pollForUpdates up to its `await fetch`: the request leaves with the current `since`
StartPoll(origin) ==
  /\ started < MaxPolls
  /\ started' = started + 1
  /\ inflight' = inflight \cup {[id |-> started + 1, origin |-> origin,
                                  since |-> lastPollTimestamp, ts |-> 0]}

\* the server builds the answer of poll q and stamps it with its clock
PollAnswered(q) ==
  /\ q \in inflight
  /\ q.ts = 0
  /\ srvTime' = srvTime + 1
  /\ inflight' = (inflight \ {q}) \cup {[q EXCEPT !.ts = srvTime + 1]}
  /\ UNCHANGED <<hookVars, serverVars, routeVars, authVars, memberVars, cMounted, sending, timers, pollTimeoutRef,
                 lastPollTimestamp, shown, started, lastDone>>

\* (mutant) the delay doubles after a failed poll
RearmDelay_Backoff(outcome) == IF outcome = "ok" THEN INTERVAL ELSE 2 * INTERVAL

\* the delay pollForUpdates re-arms with
RearmDelay(outcome) == INTERVAL

\* pollForUpdates from the answer on: lines 38-67 on a 200 answer, the catch
\* on a non-OK status or a failed fetch, and the finally block in every case
PollComplete(q, outcome) ==
  /\ q \in inflight
  /\ outcome \in {"ok", "status"} => q.ts # 0
  /\ inflight' = inflight \ {q}
  /\ IF outcome = "ok"
     THEN /\ shown' = q.ts
          /\ lastPollTimestamp' = q.ts
     ELSE UNCHANGED <<shown, lastPollTimestamp>>
  /\ LET h == FreshHandle
         cleared == IF pollTimeoutRef # 0 THEN ClearTimeout(timers, pollTimeoutRef)
                    ELSE timers
     IN /\ timers' = SetTimeout(cleared, h, RearmDelay(outcome))
        /\ pollTimeoutRef' = h
  /\ lastDone' = [id |-> q.id, outcome |-> outcome]
  /\ UNCHANGED <<hookVars, serverVars, routeVars, authVars, memberVars, cMounted, sending, srvTime, started>>

\* a pending timeout fires and runs pollForUpdates
TimerFire(h) ==
  /\ h \in DOMAIN timers
  /\ timers' = ClearTimeout(timers, h)
  /\ StartPoll("timer")
  /\ UNCHANGED <<hookVars, serverVars, routeVars, authVars, memberVars, cMounted, sending, pollTimeoutRef,
                 lastPollTimestamp, shown, srvTime, lastDone>>

\* sendMessage up to its `await fetch` of POST /poll
SendMessage ==
  /\ cMounted
  /\ sending < MaxSends
  /\ sending' = sending + 1
  /\ UNCHANGED <<hookVars, serverVars, routeVars, authVars, memberVars, cMounted, inflight, timers, pollTimeoutRef,
                 lastPollTimestamp, shown, srvTime, started, lastDone>>

\* sendMessage lines 114-120: on a 2xx answer, an immediate pollForUpdates()
SendMessageOk ==
  /\ sending > 0
  /\ sending' = sending - 1
  /\ StartPoll("send")
  /\ UNCHANGED <<hookVars, serverVars, routeVars, authVars, memberVars, cMounted, timers, pollTimeoutRef,
                 lastPollTimestamp, shown, srvTime, lastDone>>

\* sendMessage lines 114-116, 121-124: a non-OK answer or a failed fetch
SendMessageFailed ==
  /\ sending > 0
  /\ sending' = sending - 1
  /\ UNCHANGED <<hookVars, serverVars, routeVars, authVars, memberVars, cMounted, inflight, timers, pollTimeoutRef,
                 lastPollTimestamp, shown, srvTime, started, lastDone>>

\* the cleanup of the mount effect, lines 87-91
Unmount ==
  /\ cMounted
  /\ cMounted' = FALSE
  /\ timers' = IF pollTimeoutRef # 0 THEN ClearTimeout(timers, pollTimeoutRef)
               ELSE timers
  /\ UNCHANGED <<hookVars, serverVars, routeVars, authVars, memberVars, inflight, sending, pollTimeoutRef,
                 lastPollTimestamp, shown, srvTime, started, lastDone>>

\* after the first render: the mount effect has called pollForUpdates()
ClientInit ==
  /\ cMounted = TRUE
  /\ inflight = {[id |-> 1, origin |-> "mount", since |-> 0, ts |-> 0]}
  /\ sending = 0
  /\ timers = << >>
  /\ pollTimeoutRef = 0
  /\ lastPollTimestamp = 0
  /\ shown = 0
  /\ srvTime = 0
  /\ started = 1
  /\ lastDone = [id |-> 0, outcome |-> "none"]

ClientNext ==
  \/ \E q \in inflight : PollAnswered(q)
  \/ \E q \in inflight, outcome \in {"ok", "status", "throw"} : PollComplete(q, outcome)
  \/ \E h \in DOMAIN timers : TimerFire(h)
  \/ SendMessage
  \/ SendMessageOk
  \/ SendMessageFailed
  \/ Unmount



(***************************************************************************)
(* POST /auth: registration bound to the network address                   *)
(***************************************************************************)
\* a JSON value sent as `username`: nothing, a number, or a string of chars
NoName == [kind |-> "missing", chars |-> <<>>]
Str(cs) == [kind |-> "string", chars |-> cs]
Repeat(c, n) == [i \in 1..n |-> c]
UsernameInputs ==
  {NoName, [kind |-> "number", chars |-> <<>>], Str(<<>>), Str(<<"a", "l">>),
   Str(<<"B", "o", "b">>), Str(<<"b", "o", "b">>),
   Str(Repeat("x", USERNAME_MAX)), Str(Repeat("x", USERNAME_MAX + 1))}

\* String.prototype.toLowerCase on the letters in use
LowerChar(c) == IF c = "B" THEN "b" ELSE IF c = "D" THEN "d" ELSE c
ToLowerCase(cs) == [i \in 1..Len(cs) |-> LowerChar(cs[i])]

\* `!username`: undefined and the empty string are falsy
Falsy(u) == u.kind = "missing" \/ (u.kind = "string" /\ u.chars = <<>>)

\* (mutant) the upper length bound is not checked
ValidUsername_NoMax(u) ==
  ~(Falsy(u) \/ u.kind # "string" \/ Len(u.chars) < USERNAME_MIN)

\* route.ts line 73, negated
ValidUsername(u) ==
  ~(Falsy(u) \/ u.kind # "string" \/ Len(u.chars) < USERNAME_MIN
      \/ Len(u.chars) > USERNAME_MAX)

NoUser == [id |-> 0, username |-> NoName]
IdleAuth == [pc |-> "idle", ip |-> "", username |-> NoName, status |-> 0,
             user |-> NoUser]

\* getUserByIp: the account bound to the address, or none (an empty sequence)
getUserByIp(ip) ==
  IF ip \in DOMAIN ipToUser /\ ipToUser[ip] \in DOMAIN accounts
  THEN <<accounts[ipToUser[ip]]>> ELSE <<>>

\* createUserAccount: is the name taken, compared case-insensitively
NameTaken(cs) ==
  \E id \in DOMAIN accounts :
    ToLowerCase(accounts[id].username.chars) = ToLowerCase(cs)

\* POST lines 54-56: the body and the client address
AuthBegin(a, username, ip) ==
  /\ areq[a].pc = "idle"
  /\ Cardinality(DOMAIN accounts) < MaxAccounts
  /\ areq' = [areq EXCEPT ![a] = [IdleAuth EXCEPT !.pc = "lookup", !.ip = ip,
                                                  !.username = username]]
  /\ UNCHANGED <<hookVars, serverVars, routeVars, clientVars, memberVars, accounts, ipToUser>>

\* (mutant) the name is validated before the address is looked up
AuthLookup_ValidateFirst(a) ==
  /\ areq[a].pc = "lookup"
  /\ LET existing == getUserByIp(areq[a].ip) IN
       IF ~ValidUsername(areq[a].username)
       THEN /\ areq' = [areq EXCEPT ![a] = [@ EXCEPT !.pc = "done", !.status = 400]]
            /\ UNCHANGED accounts
       ELSE IF existing # <<>>
       THEN /\ areq' = [areq EXCEPT ![a] =
                          [@ EXCEPT !.pc = "done", !.status = 200,
                                    !.user = [id |-> existing[1].id,
                                              username |-> existing[1].username]]]
            /\ accounts' = [accounts EXCEPT ![existing[1].id].lastLogin = now]
       ELSE /\ areq' = [areq EXCEPT ![a] = [@ EXCEPT !.pc = "create"]]
            /\ UNCHANGED accounts
  /\ UNCHANGED <<hookVars, serverVars, routeVars, clientVars, memberVars, ipToUser>>

\* POST lines 58-81: getUserByIp (which refreshes lastLogin), the early
\* answer for a known address, then the validation of the name
AuthLookup(a) ==
  /\ areq[a].pc = "lookup"
  /\ LET existing == getUserByIp(areq[a].ip) IN
       IF existing # <<>>
       THEN /\ areq' = [areq EXCEPT ![a] =
                          [@ EXCEPT !.pc = "done", !.status = 200,
                                    !.user = [id |-> existing[1].id,
                                              username |-> existing[1].username]]]
            /\ accounts' = [accounts EXCEPT ![existing[1].id].lastLogin = now]
       ELSE IF ~ValidUsername(areq[a].username)
       THEN /\ areq' = [areq EXCEPT ![a] = [@ EXCEPT !.pc = "done", !.status = 400]]
            /\ UNCHANGED accounts
       ELSE /\ areq' = [areq EXCEPT ![a] = [@ EXCEPT !.pc = "create"]]
            /\ UNCHANGED accounts
  /\ UNCHANGED <<hookVars, serverVars, routeVars, clientVars, memberVars, ipToUser>>

\* createUserAccount: nothing when the name is taken, else the new account
\* stored under the next id and bound to the address
createUserAccount(name, ip) ==
  LET id == Cardinality(DOMAIN accounts) + 1 IN
    IF NameTaken(name.chars)
    THEN [id |-> 0, accounts |-> accounts, ipToUser |-> ipToUser]
    ELSE [id |-> id,
          accounts |-> [k \in DOMAIN accounts \cup {id} |->
                          IF k = id
                          THEN [id |-> id, username |-> name, ipAddress |-> ip,
                                createdAt |-> now, lastLogin |-> now]
                          ELSE accounts[k]],
          ipToUser |-> [k \in DOMAIN ipToUser \cup {ip} |->
                          IF k = ip THEN id ELSE ipToUser[k]]]

\* POST lines 83-103: createUserAccount, 400 when it returns nothing
AuthCreate(a) ==
  /\ areq[a].pc = "create"
  /\ LET name == areq[a].username
         made == createUserAccount(name, areq[a].ip)
     IN /\ accounts' = made.accounts
        /\ ipToUser' = made.ipToUser
        /\ IF made.id = 0
           THEN areq' = [areq EXCEPT ![a] = [@ EXCEPT !.pc = "done", !.status = 400]]
           ELSE areq' = [areq EXCEPT ![a] =
                           [@ EXCEPT !.pc = "done", !.status = 200,
                                     !.user = [id |-> made.id, username |-> name]]]
  /\ UNCHANGED <<hookVars, serverVars, routeVars, clientVars, memberVars>>

\* POST lines 104-107: a store call throws, 500
AuthThrow(a) ==
  /\ areq[a].pc \in {"lookup", "create"}
  /\ areq' = [areq EXCEPT ![a] = [@ EXCEPT !.pc = "done", !.status = 500]]
  /\ UNCHANGED <<hookVars, serverVars, routeVars, clientVars, memberVars, accounts, ipToUser>>

\* the answer has been sent
AuthClose(a) ==
  /\ areq[a].pc = "done"
  /\ areq' = [areq EXCEPT ![a] = IdleAuth]
  /\ UNCHANGED <<hookVars, serverVars, routeVars, clientVars, memberVars, accounts, ipToUser>>

\* time passes; AuthNext lets it pass while no registration is being handled
AuthTick ==
  /\ ticks < MaxTicks
  /\ now' = now + 1
  /\ ticks' = ticks + 1
  /\ UNCHANGED <<storeVars, postVars, pollVars, offServer>>

AuthInit ==
  /\ accounts = << >>
  /\ ipToUser = << >>
  /\ areq = [a \in AuthSlots |-> IdleAuth]

AuthNext ==
  \/ \E a \in AuthSlots, username \in UsernameInputs, ip \in Addresses :
       AuthBegin(a, username, ip)
  \/ \E a \in AuthSlots : AuthLookup(a)
  \/ \E a \in AuthSlots : AuthCreate(a)
  \/ \E a \in AuthSlots : AuthThrow(a)
  \/ \E a \in AuthSlots : AuthClose(a)
  \/ (\A a \in AuthSlots : areq[a].pc = "idle") /\ AuthTick

(***************************************************************************)
(* PUT /rooms: join and leave                                              *)
(***************************************************************************)
IdleMember == [pc |-> "idle", roomId |-> "", action |-> "", userId |-> "",
               members |-> <<>>, noop |-> FALSE, status |-> 0]

\* the text of the system message for a member change
SystemText(name, action) ==
  IF action = "join"
  THEN (IF name = "Alice" THEN "Alice has joined the room" ELSE "Bob has joined the room")
  ELSE (IF name = "Alice" THEN "Alice has left the room" ELSE "Bob has left the room")

SystemMessage(roomId, name, action) ==
  [id |-> ToString(now), content |-> SystemText(name, action),
   sender |-> "System", senderId |-> "system", timestamp |-> now,
   type |-> "system", roomId |-> roomId, file |-> ""]

\* the member list without userId
Without(members, userId) == SelectSeq(members, LAMBDA u : u # userId)

\* PUT lines 513-521, 539-541: the required fields and the known actions
PutBegin(j, roomId, action, userId) ==
  /\ mreq[j].pc = "idle"
  /\ TotalMsgs < MaxMsgs
  /\ IF roomId = "" \/ userId = "" \/ action \notin {"join", "leave"}
     THEN mreq' = [mreq EXCEPT ![j] = [IdleMember EXCEPT !.pc = "done",
                                                         !.status = 400]]
     ELSE mreq' = [mreq EXCEPT ![j] = [IdleMember EXCEPT !.pc = "read",
                                         !.roomId = roomId, !.action = action,
                                         !.userId = userId]]
  /\ UNCHANGED <<hookVars, serverVars, routeVars, clientVars, authVars>>

\* (mutant) join and leave do not look at the current membership
MemberRead_NoCheck(j) ==
  /\ mreq[j].pc = "read"
  /\ LET r == mreq[j] IN
       IF r.roomId \notin DOMAIN rooms
       THEN mreq' = [mreq EXCEPT ![j] = [@ EXCEPT !.pc = "done", !.status = 400]]
       ELSE mreq' = [mreq EXCEPT ![j] =
                       [@ EXCEPT !.pc = "write",
                                 !.members = rooms[r.roomId].members]]
  /\ UNCHANGED <<hookVars, serverVars, routeVars, clientVars, authVars>>

\* joinChatroom / leaveChatroom: read the room; absent fails (PUT lines
\* 526-528, 534-536 answer 400), nothing to change succeeds as a no-op
MemberRead(j) ==
  /\ mreq[j].pc = "read"
  /\ LET r == mreq[j] IN
       IF r.roomId \notin DOMAIN rooms
       THEN mreq' = [mreq EXCEPT ![j] = [@ EXCEPT !.pc = "done", !.status = 400]]
       ELSE LET isMember == r.userId \in Range(rooms[r.roomId].members) IN
            IF (r.action = "join") = isMember
            THEN mreq' = [mreq EXCEPT ![j] = [@ EXCEPT !.pc = "done", !.noop = TRUE,
                                                       !.status = 200]]
            ELSE mreq' = [mreq EXCEPT ![j] =
                            [@ EXCEPT !.pc = "write",
                                      !.members = rooms[r.roomId].members]]
  /\ UNCHANGED <<hookVars, serverVars, routeVars, clientVars, authVars>>

\* (mutant) the system message is emitted whether or not the name is known
MemberWrite_AlwaysAnnounce(j) ==
  /\ mreq[j].pc = "write"
  /\ LET r == mreq[j]
         members2 == IF r.action = "join" THEN Append(r.members, r.userId)
                     ELSE Without(r.members, r.userId)
         name == IF r.userId \in DOMAIN users THEN users[r.userId].name ELSE "Unknown"
         m == SystemMessage(r.roomId, name, r.action)
     IN /\ r.roomId \in DOMAIN rooms
        /\ rooms' = [rooms EXCEPT ![r.roomId].members = members2]
        /\ msgs' = [msgs EXCEPT ![r.roomId] = Append(@, m)]
        /\ appended' = [appended EXCEPT ![r.roomId] = Append(@, m)]
        /\ published' = published + 1
        /\ mreq' = [mreq EXCEPT ![j] = [@ EXCEPT !.pc = "done", !.status = 200]]
  /\ UNCHANGED <<hookVars, routeVars, clockVars, users, postVars, pollVars, clientVars, authVars>>

\* (mutant) the write applies the change to the member list as it is now
MemberWrite_OnCurrent(j) ==
  /\ mreq[j].pc = "write"
  /\ LET r == mreq[j]
         cur == IF r.roomId \in DOMAIN rooms THEN rooms[r.roomId].members ELSE <<>>
         members2 == IF r.action = "join" THEN Append(Without(cur, r.userId), r.userId)
                     ELSE Without(cur, r.userId)
     IN /\ r.roomId \in DOMAIN rooms
        /\ rooms' = [rooms EXCEPT ![r.roomId].members = members2]
        /\ IF r.userId \in DOMAIN users
           THEN LET m == SystemMessage(r.roomId, users[r.userId].name, r.action) IN
                  /\ msgs' = [msgs EXCEPT ![r.roomId] = Append(@, m)]
                  /\ appended' = [appended EXCEPT ![r.roomId] = Append(@, m)]
                  /\ published' = published + 1
           ELSE UNCHANGED <<msgs, appended, published>>
        /\ mreq' = [mreq EXCEPT ![j] = [@ EXCEPT !.pc = "done", !.status = 200]]
  /\ UNCHANGED <<hookVars, routeVars, clockVars, users, postVars, pollVars, clientVars, authVars>>

\* joinChatroom / leaveChatroom: persist the member list computed from the
\* list that was read, then the system message when the name is known
MemberWrite(j) ==
  /\ mreq[j].pc = "write"
  /\ LET r == mreq[j]
         members2 == IF r.action = "join" THEN Append(r.members, r.userId)
                     ELSE Without(r.members, r.userId)
     IN /\ r.roomId \in DOMAIN rooms
        /\ rooms' = [rooms EXCEPT ![r.roomId].members = members2]
        /\ IF r.userId \in DOMAIN users
           THEN LET m == SystemMessage(r.roomId, users[r.userId].name, r.action) IN
                  /\ msgs' = [msgs EXCEPT ![r.roomId] = Append(@, m)]
                  /\ appended' = [appended EXCEPT ![r.roomId] = Append(@, m)]
                  /\ published' = published + 1
           ELSE UNCHANGED <<msgs, appended, published>>
        /\ mreq' = [mreq EXCEPT ![j] = [@ EXCEPT !.pc = "done", !.status = 200]]
  /\ UNCHANGED <<hookVars, routeVars, clockVars, users, postVars, pollVars, clientVars, authVars>>

\* the answer has been sent
MemberClose(j) ==
  /\ mreq[j].pc = "done"
  /\ mreq' = [mreq EXCEPT ![j] = IdleMember]
  /\ UNCHANGED <<hookVars, serverVars, routeVars, clientVars, authVars>>

MemberInit == mreq = [j \in MemberSlots |-> IdleMember]

MemberNext ==
  \/ \E j \in MemberSlots, roomId \in {"", "general", "nowhere"},
        action \in {"join", "leave", "kick"}, userId \in {"", "u2", "u3"} :
       PutBegin(j, roomId, action, userId)
  \/ \E j \in MemberSlots : MemberRead(j)
  \/ \E j \in MemberSlots : MemberWrite(j)
  \/ \E j \in MemberSlots : MemberClose(j)
  \/ Quiet /\ Tick(1)

(***************************************************************************)
(* /rooms: create, get and delete                                          *)
(***************************************************************************)
RoomSlots == {1, 2}

\* the characters /[a-z0-9]/ matches
LowerAlnum ==
  {"a", "b", "c", "d", "e", "f", "g", "h", "i", "j", "k", "l", "m", "n", "o",
   "p", "q", "r", "s", "t", "u", "v", "w", "x", "y", "z",
   "0", "1", "2", "3", "4", "5", "6", "7", "8", "9"}

\* the characters as one string
RECURSIVE Join(_)
Join(cs) == IF cs = <<>> THEN "" ELSE Head(cs) \o Join(Tail(cs))

\* String.prototype.trim on names padded with blanks
RECURSIVE TrimStart(_)
TrimStart(cs) ==
  IF cs # <<>> /\ Head(cs) = " " THEN TrimStart(Tail(cs)) ELSE cs
RECURSIVE TrimEnd(_)
TrimEnd(cs) ==
  IF cs # <<>> /\ cs[Len(cs)] = " " THEN TrimEnd(SubSeq(cs, 1, Len(cs) - 1)) ELSE cs
Trim(cs) == TrimEnd(TrimStart(cs))

\* POST line 486: name.toLowerCase().replace(/[^a-z0-9]/g, "-")
RoomIdOf(cs) ==
  Join([i \in 1..Len(cs) |->
          IF LowerChar(cs[i]) \in LowerAlnum THEN LowerChar(cs[i]) ELSE "-"])

\* the bodies sent to POST /rooms; an absent description or creator is ""
RoomBody(name, description, isPrivate, createdBy) ==
  [name |-> name, description |-> description, isPrivate |-> isPrivate,
   createdBy |-> createdBy]
RoomBodies ==
  {RoomBody(NoName, "", FALSE, ""),
   RoomBody([kind |-> "number", chars |-> <<>>], "", FALSE, ""),
   RoomBody(Str(<<" ", "a", "b", " ">>), "", FALSE, "u2"),
   RoomBody(Str(Repeat("x", ROOM_NAME_MAX + 1)), "", FALSE, "u2"),
   RoomBody(Str(<<"D", "e", "v">>), "talk", TRUE, "u2"),
   RoomBody(Str(<<"d", "e", "v">>), "", FALSE, "")}

NoRoom == <<>>
IdleRoom == [pc |-> "idle", op |-> "", id |-> "", userId |-> "", data |-> NoRoom,
             status |-> 0, room |-> NoRoom]

\* POST lines 488-495: the record handed to createChatroom; an absent
\* description is "", an absent creator "anonymous"
RoomData(name, description, isPrivate, createdBy) ==
  [id |-> RoomIdOf(name.chars), name |-> Join(Trim(name.chars)),
   description |-> description,
   createdBy |-> IF createdBy = "" THEN "anonymous" ELSE createdBy,
   isPrivate |-> isPrivate, members |-> <<>>]

\* getChatroom: the stored room, or none
getChatroom(id) == IF id \in DOMAIN rooms THEN <<rooms[id]>> ELSE NoRoom

\* the room hash with one more entry
WithRoom(room) ==
  [q \in DOMAIN rooms \cup {room.id} |-> IF q = room.id THEN room ELSE rooms[q]]

\* (mutant) an existing room of the same id is replaced
createChatroom_Overwrite(roomData) ==
  LET room == [id |-> roomData.id, name |-> roomData.name,
               description |-> roomData.description,
               createdBy |-> roomData.createdBy, isPrivate |-> roomData.isPrivate,
               members |-> roomData.members, createdAt |-> now]
  IN [room |-> <<room>>, rooms |-> WithRoom(room)]

\* (mutant) the creator is entered as the first member
createChatroom_CreatorJoins(roomData) ==
  IF roomData.id \in DOMAIN rooms
  THEN [room |-> NoRoom, rooms |-> rooms]
  ELSE LET room == [id |-> roomData.id, name |-> roomData.name,
                    description |-> roomData.description,
                    createdBy |-> roomData.createdBy,
                    isPrivate |-> roomData.isPrivate,
                    members |-> <<roomData.createdBy>>, createdAt |-> now]
       IN [room |-> <<room>>, rooms |-> WithRoom(room)]

\* createChatroom: nothing when the id exists, else the room stored with the
\* current time as createdAt
createChatroom(roomData) ==
  IF roomData.id \in DOMAIN rooms
  THEN [room |-> NoRoom, rooms |-> rooms]
  ELSE LET room == [id |-> roomData.id, name |-> roomData.name,
                    description |-> roomData.description,
                    createdBy |-> roomData.createdBy,
                    isPrivate |-> roomData.isPrivate,
                    members |-> roomData.members, createdAt |-> now]
       IN [room |-> <<room>>, rooms |-> WithRoom(room)]

\* deleteChatroom: the room entry and its whole message list are removed
deleteChatroom(id) ==
  [rooms |-> [q \in DOMAIN rooms \ {id} |-> rooms[q]],
   msgs |-> [q \in DOMAIN msgs |-> IF q = id THEN <<>> ELSE msgs[q]]]

\* POST lines 476-495: the body, the validation of the name, the room data
RoomPostBegin(k, name, description, isPrivate, createdBy) ==
  /\ rreq[k].pc = "idle"
  /\ LET r == [IdleRoom EXCEPT !.op = "create"] IN
       IF Falsy(name)
       THEN rreq' = [rreq EXCEPT ![k] = [r EXCEPT !.pc = "done", !.status = 400]]
       ELSE IF name.kind # "string"
       THEN rreq' = [rreq EXCEPT ![k] = [r EXCEPT !.pc = "done", !.status = 500]]
       ELSE IF Len(Trim(name.chars)) < ROOM_NAME_MIN
               \/ Len(Trim(name.chars)) > ROOM_NAME_MAX
       THEN rreq' = [rreq EXCEPT ![k] = [r EXCEPT !.pc = "done", !.status = 400]]
       ELSE LET roomData == RoomData(name, description, isPrivate, createdBy) IN
              rreq' = [rreq EXCEPT ![k] =
                         [r EXCEPT !.pc = "create", !.id = roomData.id,
                                   !.userId = roomData.createdBy,
                                   !.data = <<roomData>>]]
  /\ UNCHANGED <<hookVars, serverVars, clientVars, authVars, memberVars, ureq>>

\* POST lines 497-503: createChatroom, 400 when it returns nothing
RoomCreate(k) ==
  /\ rreq[k].pc = "create"
  /\ LET made == createChatroom(rreq[k].data[1]) IN
       /\ rooms' = made.rooms
       /\ rreq' = [rreq EXCEPT ![k] =
                     [@ EXCEPT !.pc = "done", !.room = made.room,
                               !.status = IF made.room = NoRoom THEN 400 ELSE 200]]
  /\ UNCHANGED <<hookVars, clockVars, msgs, appended, published, users, postVars, pollVars,
                 clientVars, authVars, memberVars, ureq>>

\* GET lines 450-468: one room by id (404 when absent), or all rooms
RoomGet(k, id) ==
  /\ rreq[k].pc = "idle"
  /\ LET r == [IdleRoom EXCEPT !.op = "get", !.id = id, !.pc = "done"] IN
       IF id = ""
       THEN rreq' = [rreq EXCEPT ![k] = [r EXCEPT !.status = 200]]
       ELSE rreq' = [rreq EXCEPT ![k] =
                       [r EXCEPT !.room = getChatroom(id),
                                 !.status = IF getChatroom(id) = NoRoom
                                            THEN 404 ELSE 200]]
  /\ UNCHANGED <<hookVars, serverVars, clientVars, authVars, memberVars, ureq>>

\* DELETE lines 549-561: the required parameters
RoomDeleteBegin(k, id, userId) ==
  /\ rreq[k].pc = "idle"
  /\ LET r == [IdleRoom EXCEPT !.op = "delete", !.id = id, !.userId = userId] IN
       IF id = "" \/ userId = ""
       THEN rreq' = [rreq EXCEPT ![k] = [r EXCEPT !.pc = "done", !.status = 400]]
       ELSE rreq' = [rreq EXCEPT ![k] = [r EXCEPT !.pc = "check"]]
  /\ UNCHANGED <<hookVars, serverVars, clientVars, authVars, memberVars, ureq>>

\* DELETE lines 563-573: getChatroom, 404 when absent, 403 for a non-creator
RoomDeleteCheck(k) ==
  /\ rreq[k].pc = "check"
  /\ LET room == getChatroom(rreq[k].id) IN
       IF room = NoRoom
       THEN rreq' = [rreq EXCEPT ![k] = [@ EXCEPT !.pc = "done", !.status = 404]]
       ELSE IF room[1].createdBy # rreq[k].userId
       THEN rreq' = [rreq EXCEPT ![k] = [@ EXCEPT !.pc = "done", !.status = 403]]
       ELSE rreq' = [rreq EXCEPT ![k] = [@ EXCEPT !.pc = "delete", !.room = room]]
  /\ UNCHANGED <<hookVars, serverVars, clientVars, authVars, memberVars, ureq>>

\* DELETE lines 575-581: deleteChatroom
RoomDeleteRun(k) ==
  /\ rreq[k].pc = "delete"
  /\ LET gone == deleteChatroom(rreq[k].id) IN
       /\ rooms' = gone.rooms
       /\ msgs' = gone.msgs
  /\ rreq' = [rreq EXCEPT ![k] = [@ EXCEPT !.pc = "done", !.status = 200]]
  /\ UNCHANGED <<hookVars, clockVars, appended, published, users, postVars, pollVars,
                 clientVars, authVars, memberVars, ureq>>

\* the catch blocks (lines 469-472, 504-507, 582-585): a store call throws
RoomThrow(k) ==
  /\ rreq[k].pc \in {"create", "check", "delete"}
  /\ rreq' = [rreq EXCEPT ![k] = [@ EXCEPT !.pc = "done", !.status = 500]]
  /\ UNCHANGED <<hookVars, serverVars, clientVars, authVars, memberVars, ureq>>

\* the answer has been sent
RoomClose(k) ==
  /\ rreq[k].pc = "done"
  /\ rreq' = [rreq EXCEPT ![k] = IdleRoom]
  /\ UNCHANGED <<hookVars, serverVars, clientVars, authVars, memberVars, ureq>>

\* the id and userId parameters sent to DELETE /rooms
DeleteInputs ==
  {<<"", "">>, <<"dev", "">>} \cup ({"dev", "nowhere"} \X {"u1", "u2"})

RoomInit == rreq = [k \in RoomSlots |-> IdleRoom]

\* the /rooms route with two handlers, next to joins of the room "dev"
AdminNext ==
  \/ \E k \in RoomSlots, b \in RoomBodies :
       RoomPostBegin(k, b.name, b.description, b.isPrivate, b.createdBy)
  \/ \E k \in RoomSlots : RoomCreate(k)
  \/ \E k \in RoomSlots, id \in {"", "dev", "nowhere"} : RoomGet(k, id)
  \/ \E k \in RoomSlots, a \in DeleteInputs : RoomDeleteBegin(k, a[1], a[2])
  \/ \E k \in RoomSlots : RoomDeleteCheck(k)
  \/ \E k \in RoomSlots : RoomDeleteRun(k)
  \/ \E k \in RoomSlots : RoomThrow(k)
  \/ \E k \in RoomSlots : RoomClose(k)
  \/ TotalMsgs < MaxPollMsgs /\ PutBegin(1, "dev", "join", "u2")
  \/ MemberRead(1)
  \/ MemberWrite(1)
  \/ MemberClose(1)
  \/ (\A k \in RoomSlots : rreq[k].pc = "idle") /\ mreq[1].pc = "idle" /\ Tick(1)

(***************************************************************************)
(* /users and the user directory                                           *)
(***************************************************************************)
FIVE_MINUTES == 5 * 60 * 1000

\* the order in which Object.entries lists the directory
UserOrder == <<"u1", "u2", "u3">>

IdleUserReq == [pc |-> "idle", op |-> "", id |-> "", now |-> 0, left |-> {},
                absent |-> FALSE, failed |-> FALSE, status |-> 0, list |-> {}]

\* the first user of the snapshot that the loop has not visited yet
NextOf(left) ==
  LET i == CHOOSE i \in 1..Len(UserOrder) :
             /\ \E u \in left : u.id = UserOrder[i]
             /\ \A k \in 1..(i - 1) : \A u \in left : u.id # UserOrder[k]
  IN CHOOSE u \in left : u.id = UserOrder[i]

\* (mutant) removing a user that is not in the directory is an error
removeUser_MustExist(userId) ==
  IF userId \in DOMAIN users
  THEN [ok |-> TRUE, users |-> [u \in DOMAIN users \ {userId} |-> users[u]],
        published |-> published + 1]
  ELSE [ok |-> FALSE, users |-> users, published |-> published]

\* removeUser: HDEL (nothing to do for an absent field), then the
\* user-remove notification
removeUser(userId) ==
  [ok |-> TRUE, users |-> [u \in DOMAIN users \ {userId} |-> users[u]],
   published |-> published + 1]

\* updateUser: HSET of {name, lastSeen} under the id, then the notification
updateUser(user) ==
  [ok |-> TRUE,
   users |-> [u \in DOMAIN users \cup {user.id} |->
                IF u = user.id THEN [name |-> user.name, lastSeen |-> user.lastSeen]
                ELSE users[u]],
   published |-> published + 1]

\* GET /users line 8 and cleanupUsers lines 230-231: the snapshot and the time
UsersGetBegin ==
  /\ ureq.pc = "idle"
  /\ ureq' = [IdleUserReq EXCEPT !.pc = "sweep", !.op = "get", !.now = now,
                                 !.left = getUsers]
  /\ UNCHANGED <<hookVars, serverVars, clientVars, authVars, memberVars, rreq>>

\* cleanupUsers lines 233-237: one iteration of the loop
SweepStep ==
  /\ ureq.pc = "sweep"
  /\ ureq.left # {}
  /\ LET user == NextOf(ureq.left) IN
       /\ ureq' = [ureq EXCEPT !.left = @ \ {user}]
       /\ IF ureq.now - user.lastSeen > FIVE_MINUTES
          THEN /\ users' = removeUser(user.id).users
               /\ published' = removeUser(user.id).published
          ELSE UNCHANGED <<users, published>>
  /\ UNCHANGED <<hookVars, clockVars, msgs, appended, rooms, postVars, pollVars, clientVars,
                 authVars, memberVars, rreq>>

\* GET /users lines 10-11: the directory after the sweep
UsersGetList ==
  /\ ureq.pc = "sweep"
  /\ ureq.left = {}
  /\ ureq' = [ureq EXCEPT !.pc = "done", !.status = 200, !.list = getUsers]
  /\ UNCHANGED <<hookVars, serverVars, clientVars, authVars, memberVars, rreq>>

\* POST /users lines 19-39: id and name required, lastSeen defaults to now
UsersPost(user) ==
  /\ ureq.pc = "idle"
  /\ IF user.id = "" \/ user.name = ""
     THEN /\ ureq' = [IdleUserReq EXCEPT !.pc = "done", !.op = "post",
                                         !.id = user.id, !.status = 400]
          /\ UNCHANGED <<users, published>>
     ELSE LET u == [user EXCEPT !.lastSeen = IF @ = 0 THEN now ELSE @] IN
            /\ users' = updateUser(u).users
            /\ published' = updateUser(u).published
            /\ ureq' = [IdleUserReq EXCEPT !.pc = "done", !.op = "post",
                                           !.id = user.id, !.status = 200]
  /\ UNCHANGED <<hookVars, clockVars, msgs, appended, rooms, postVars, pollVars, clientVars,
                 authVars, memberVars, rreq>>

\* DELETE /users lines 47-62: id required, removeUser, 500 when it fails
UsersDelete(userId, fails) ==
  /\ ureq.pc = "idle"
  /\ LET r == [IdleUserReq EXCEPT !.pc = "done", !.op = "delete", !.id = userId,
                                  !.absent = userId \notin DOMAIN users,
                                  !.failed = fails]
         gone == removeUser(userId)
     IN IF userId = ""
        THEN /\ ureq' = [r EXCEPT !.status = 400]
             /\ UNCHANGED <<users, published>>
        ELSE IF fails \/ ~gone.ok
        THEN /\ ureq' = [r EXCEPT !.status = 500]
             /\ UNCHANGED <<users, published>>
        ELSE /\ ureq' = [r EXCEPT !.status = 200]
             /\ users' = gone.users
             /\ published' = gone.published
  /\ UNCHANGED <<hookVars, clockVars, msgs, appended, rooms, postVars, pollVars, clientVars,
                 authVars, memberVars, rreq>>

\* the answer has been sent
UsersClose ==
  /\ ureq.pc = "done"
  /\ ureq' = IdleUserReq
  /\ UNCHANGED <<hookVars, serverVars, clientVars, authVars, memberVars, rreq>>

\* the users sent to POST /users: lastSeen absent (0) or exactly five minutes
\* before the start
UserInputs ==
  {[id |-> i, name |-> n, lastSeen |-> t] :
     i \in {"", "u3"}, n \in {"", "Cy"}, t \in {0, T0 - FIVE_MINUTES}}

UserInit == ureq = IdleUserReq

\* the /users route and the user sweep, next to one poller
UsersNext ==
  \/ ureq.pc = "idle" /\ Tick(TWO_MINUTES + 1)
  \/ UsersGetBegin
  \/ SweepStep
  \/ UsersGetList
  \/ \E user \in UserInputs : published < MaxWrites /\ UsersPost(user)
  \/ \E userId \in {"", "u2", "u3"}, fails \in BOOLEAN :
       published < MaxWrites /\ UsersDelete(userId, fails)
  \/ UsersClose
  \/ PollBegin(1, 0, "")
  \/ CleanupLrange(1)
  \/ FetchMessages(1, FALSE)
  \/ FetchUsersInRoom(1, FALSE)
  \/ FetchUsers(1, FALSE)
  \/ FetchRooms(1, FALSE)
  \/ Respond(1)
  \/ Close(1)

(***************************************************************************)
(* POST /messages and the message writes of POST /poll                     *)
(***************************************************************************)
\* api/messages POST lines 26-56: like POST /poll, but the room id is required
MessagesPostBegin(data) ==
  /\ post.pc = "idle"
  /\ IF data.content = "" /\ data.file = ""
     THEN post' = [pc |-> "done", status |-> 400, message |-> NoMessage]
     ELSE IF data.sender = "" \/ data.senderId = ""
     THEN post' = [pc |-> "done", status |-> 400, message |-> NoMessage]
     ELSE IF data.roomId = ""
     THEN post' = [pc |-> "done", status |-> 400, message |-> NoMessage]
     ELSE /\ TotalMsgs < MaxMsgs
          /\ post' = [pc |-> "rpush", status |-> 0,
                      message |->
                        [data EXCEPT
                           !.timestamp = IF @ = 0 THEN now ELSE @,
                           !.id = IF @ = "" THEN ToString(now) ELSE @,
                           !.type = IF @ = "" THEN "message" ELSE @]]
  /\ UNCHANGED <<offServer, clockVars, storeVars, pollVars>>

\* a message body; an absent field is "" (0 for the timestamp)
Body(id, content, file, sender, senderId, roomId) ==
  [id |-> id, content |-> content, sender |-> sender, senderId |-> senderId,
   timestamp |-> 0, type |-> "", roomId |-> roomId, file |-> file]

\* the bodies sent as messages: valid ones without and with a room, a file
\* without content, a client-chosen id, and the three invalid shapes
WriteInputs ==
  {Body("", "hi", "", "Alice", "u1", ""),
   Body("", "hi", "", "Alice", "u1", "dev"),
   Body("", "", "f.png", "Alice", "u1", ""),
   Body("m1", "hi", "", "Alice", "u1", "general"),
   Body("", "", "", "Alice", "u1", "general"),
   Body("", "hi", "", "", "u1", "general"),
   Body("", "hi", "", "Alice", "", "general")}

\* the two write routes for messages
WriteNext ==
  \/ Tick(1)
  \/ \E data \in WriteInputs : PostMessageBegin(data)
  \/ \E data \in WriteInputs : MessagesPostBegin(data)
  \/ PostMessageRpush
  \/ PostMessagePublish
  \/ PostMessageFail
  \/ PostClose

(***************************************************************************)
(* useSSE: the event-stream client                                         *)
(***************************************************************************)
\* the handle setTimeout returns: one that no pending timeout and no variable holds
FreshTimer(ts) ==
  CHOOSE h \in 1..5 :
    /\ h \notin DOMAIN ts \cup {reconnectTimeout, heartbeatTimeout}
    /\ \A k \in 1..(h - 1) : k \in DOMAIN ts \cup {reconnectTimeout, heartbeatTimeout}

\* connect (lines 16-111) called with eventSource = es and the pending
\* timeouts ts: close, clear both timeouts, open a connection and arm the
\* heartbeat timeout; when the constructor throws, the catch arms a reconnect
connect(es, ts, throws) ==
  LET cleared == ClearTimeout(ClearTimeout(ts, reconnectTimeout), heartbeatTimeout)
      open == sseOpen \ {eventSource}
      h == FreshTimer(cleared)
      c == CHOOSE c \in 1..3 : c \notin open \cup {eventSource}
  IN IF throws
     THEN /\ eventSource' = es
          /\ sseOpen' = open
          /\ reconnectTimeout' = h
          /\ sseTimers' = SetTimeout(cleared, h, [fn |-> "reconnect",
                                                  due |-> sseClock + RECONNECT_DELAY])
          /\ sseLog' = [sseLog EXCEPT !.connected = FALSE, !.errorAt = -1,
                                      !.connects = @ + 1]
          /\ UNCHANGED heartbeatTimeout
     ELSE /\ eventSource' = c
          /\ sseOpen' = open \cup {c}
          /\ heartbeatTimeout' = h
          /\ sseTimers' = SetTimeout(cleared, h, [fn |-> "heartbeat",
                                                  due |-> sseClock + HEARTBEAT_TIMEOUT])
          /\ sseLog' = [sseLog EXCEPT !.lastReset = sseClock, !.errorAt = -1,
                                      !.connects = @ + 1]
          /\ UNCHANGED reconnectTimeout

\* resetHeartbeatTimeout (lines 62-74)
resetHeartbeatTimeout ==
  LET cleared == ClearTimeout(sseTimers, heartbeatTimeout)
      h == FreshTimer(cleared)
  IN /\ heartbeatTimeout' = h
     /\ sseTimers' = SetTimeout(cleared, h, [fn |-> "heartbeat",
                                             due |-> sseClock + HEARTBEAT_TIMEOUT])

\* onopen (lines 36-40) of connection c
OnOpen(c) ==
  /\ c \in sseOpen
  /\ ~sseLog.connected
  /\ sseLog' = [sseLog EXCEPT !.connected = TRUE]
  /\ UNCHANGED <<serverVars, clientVars, authVars, memberVars, routeVars, rm, delivered,
                 eventSource, reconnectTimeout, heartbeatTimeout, sseOpen,
                 sseTimers, sseClock>>

\* onerror (lines 43-59) of connection c: close, and reconnect in 5 seconds
OnError(c) ==
  /\ c \in sseOpen
  /\ sseLog.events < MaxSseEvents
  /\ LET h == FreshTimer(sseTimers) IN
       /\ sseOpen' = sseOpen \ {eventSource}
       /\ eventSource' = 0
       /\ reconnectTimeout' = h
       /\ sseTimers' = SetTimeout(sseTimers, h, [fn |-> "reconnect",
                                                 due |-> sseClock + RECONNECT_DELAY])
  /\ sseLog' = [sseLog EXCEPT !.connected = FALSE, !.errorAt = sseClock,
                              !.events = @ + 1]
  /\ UNCHANGED <<serverVars, clientVars, authVars, memberVars, routeVars, rm, delivered,
                 heartbeatTimeout, sseClock>>

\* a registered listener of connection c (lines 80-101): connected and
\* heartbeat reset the timeout, any other event after its data has parsed
OnEvent(c, event, parses) ==
  /\ c \in sseOpen
  /\ sseLog.events < MaxSseEvents
  /\ IF event \in {"connected", "heartbeat"} \/ parses
     THEN /\ resetHeartbeatTimeout
          /\ sseLog' = [sseLog EXCEPT !.lastReset = sseClock, !.events = @ + 1,
                                      !.connected = @ \/ event = "connected"]
     ELSE /\ sseLog' = [sseLog EXCEPT !.events = @ + 1]
          /\ UNCHANGED <<heartbeatTimeout, sseTimers>>
  /\ UNCHANGED <<serverVars, clientVars, authVars, memberVars, routeVars, rm, delivered,
                 eventSource, reconnectTimeout, sseOpen, sseClock>>

\* a timeout that is due runs its callback: the reconnect (lines 55-58, 109)
\* calls connect, the heartbeat timeout (lines 66-73) closes and calls connect
SseTimerFire(h, throws) ==
  /\ h \in DOMAIN sseTimers
  /\ sseTimers[h].due <= sseClock
  /\ connect(IF sseTimers[h].fn = "heartbeat" THEN 0 ELSE eventSource,
             ClearTimeout(sseTimers, h), throws)
  /\ UNCHANGED <<serverVars, clientVars, authVars, memberVars, routeVars, rm, delivered,
                 sseClock>>

\* (mutant) the cleanup leaves the heartbeat timeout pending
SseCleanup_KeepsHeartbeat ==
  /\ ~sseLog.cleaned
  /\ sseOpen' = sseOpen \ {eventSource}
  /\ sseTimers' = ClearTimeout(sseTimers, reconnectTimeout)
  /\ sseLog' = [sseLog EXCEPT !.cleaned = TRUE]
  /\ UNCHANGED <<serverVars, clientVars, authVars, memberVars, routeVars, rm, delivered,
                 eventSource, reconnectTimeout, heartbeatTimeout, sseClock>>

\* the cleanup of the effect (lines 117-127)
SseCleanup ==
  /\ ~sseLog.cleaned
  /\ sseOpen' = sseOpen \ {eventSource}
  /\ sseTimers' = ClearTimeout(ClearTimeout(sseTimers, reconnectTimeout),
                               heartbeatTimeout)
  /\ sseLog' = [sseLog EXCEPT !.cleaned = TRUE]
  /\ UNCHANGED <<serverVars, clientVars, authVars, memberVars, routeVars, rm, delivered,
                 eventSource, reconnectTimeout, heartbeatTimeout, sseClock>>

\* time passes, up to the moment the next timeout is due
SseTick(d) ==
  /\ sseClock + d <= MaxSseTime
  /\ \A h \in DOMAIN sseTimers : sseTimers[h].due >= sseClock + d
  /\ sseClock' = sseClock + d
  /\ UNCHANGED <<serverVars, clientVars, authVars, memberVars, routeVars, rm, delivered,
                 eventSource, reconnectTimeout, heartbeatTimeout, sseOpen,
                 sseTimers, sseLog>>

\* after the effects have run: connect() of useSSE line 114 at time 0, and
\* fetchMessages() of useRoomMessages line 108 for room A
HookInit ==
  /\ eventSource = 1
  /\ reconnectTimeout = 0
  /\ heartbeatTimeout = 1
  /\ sseOpen = {1}
  /\ sseTimers = [h \in {1} |-> [fn |-> "heartbeat", due |-> HEARTBEAT_TIMEOUT]]
  /\ sseClock = 0
  /\ sseLog = [lastReset |-> 0, errorAt |-> -1, connects |-> 1, events |-> 0,
               connected |-> FALSE, cleaned |-> FALSE]
  /\ rm = [roomId |-> "A", inflight |-> {[id |-> 1, room |-> "A"]},
           timers |-> << >>, pollTimeoutRef |-> 0, messages |-> "",
           requests |-> <<"A">>, shownB |-> FALSE]
  /\ delivered = {}

SseNext ==
  \/ \E c \in sseOpen : OnOpen(c)
  \/ \E c \in sseOpen : OnError(c)
  \/ \E c \in sseOpen, event \in {"connected", "heartbeat", "update"},
        parses \in BOOLEAN : OnEvent(c, event, parses)
  \/ \E h \in DOMAIN sseTimers, throws \in BOOLEAN : SseTimerFire(h, throws)
  \/ SseCleanup
  \/ \E d \in {1000, 4000, 25000} : SseTick(d)

(***************************************************************************)
(* A client that chains `since`: pollForUpdates against GET /poll          *)
(***************************************************************************)
\* pollForUpdates lines 42-65 on the answer of slot p: the timestamp of the
\* answer becomes the next `since`; the answer's newMessages are recorded
PollDeliver(p) ==
  /\ req[p].pc = "done"
  /\ resp[p].status = 200
  /\ lastPollTimestamp' = IF resp[p].timestamp # 0 THEN resp[p].timestamp
                          ELSE lastPollTimestamp
  /\ delivered' = delivered \cup Range(resp[p].newMessages)
  /\ req' = [req EXCEPT ![p] = IdleReq]
  /\ resp' = [resp EXCEPT ![p] = NoResp]
  /\ purgeLog' = [purgeLog EXCEPT ![p] = IdleLog]
  /\ UNCHANGED <<clockVars, storeVars, postVars, lastCleanupTime, purgeStarts,
                 authVars, memberVars, routeVars, sseVars, rm, cMounted, inflight,
                 sending, timers, pollTimeoutRef, shown, srvTime, started, lastDone>>

\* one client polling general with the `since` of its last answer, while
\* messages with server-assigned and with client-supplied timestamps arrive
DeltaNext ==
  \/ Tick(1)
  \/ \E ts \in {0, T0 - 1} :
       PostMessageBegin([Body("", "hi", "", "Alice", "u1", "") EXCEPT !.timestamp = ts])
  \/ PostMessageRpush
  \/ PostMessagePublish
  \/ PostClose
  \/ PollBegin(1, lastPollTimestamp, "")
  \/ CleanupLrange(1)
  \/ FetchMessages(1, FALSE)
  \/ FetchUsersInRoom(1, FALSE)
  \/ FetchUsers(1, FALSE)
  \/ FetchRooms(1, FALSE)
  \/ Respond(1)
  \/ PollDeliver(1)

(***************************************************************************)
(* useRoomMessages: the per-room polling hook                              *)
(***************************************************************************)
\* fetchMessages from the answer on (lines 28-54): on a 200 answer the
\* messages of the closure's room are shown; in every case the finally block
\* clears the timeout the ref holds and arms this closure's next fetch
RmFetchDone(q, ok) ==
  /\ q \in rm.inflight
  /\ LET cleared == ClearTimeout(rm.timers, rm.pollTimeoutRef)
         h == CHOOSE h \in 1..4 :
                /\ h \notin DOMAIN cleared \cup {rm.pollTimeoutRef}
                /\ \A k \in 1..(h - 1) : k \in DOMAIN cleared \cup {rm.pollTimeoutRef}
     IN rm' = [rm EXCEPT !.inflight = @ \ {q},
                         !.messages = IF ok THEN q.room ELSE @,
                         !.shownB = @ \/ (ok /\ q.room = "B"),
                         !.timers = SetTimeout(cleared, h, q.room),
                         !.pollTimeoutRef = h]
  /\ UNCHANGED <<serverVars, clientVars, authVars, memberVars, routeVars, sseVars,
                 delivered>>

\* a pending timeout fires and runs the fetchMessages of its closure up to
\* the `await fetch` (lines 22-26)
RmTimerFire(h) ==
  /\ h \in DOMAIN rm.timers
  /\ Len(rm.requests) < MaxFetches
  /\ rm' = [rm EXCEPT !.timers = ClearTimeout(@, h),
                      !.inflight = @ \cup {[id |-> Len(rm.requests) + 1,
                                            room |-> rm.timers[h]]},
                      !.requests = Append(@, rm.timers[h])]
  /\ UNCHANGED <<serverVars, clientVars, authVars, memberVars, routeVars, sseVars,
                 delivered>>

\* the roomId prop changes from A to B: the cleanup of the old effect (lines
\* 111-115), then the new effect (lines 102-108) with B's fetchMessages
RoomChange ==
  /\ rm.roomId = "A"
  /\ Len(rm.requests) < MaxFetches
  /\ rm' = [rm EXCEPT !.roomId = "B",
                      !.timers = ClearTimeout(@, rm.pollTimeoutRef),
                      !.messages = "",
                      !.inflight = @ \cup {[id |-> Len(rm.requests) + 1, room |-> "B"]},
                      !.requests = Append(@, "B")]
  /\ UNCHANGED <<serverVars, clientVars, authVars, memberVars, routeVars, sseVars,
                 delivered>>

RmNext ==
  \/ \E q \in rm.inflight, ok \in BOOLEAN : RmFetchDone(q, ok)
  \/ \E h \in DOMAIN rm.timers : RmTimerFire(h)
  \/ RoomChange

(***************************************************************************)
(* Specifications                                                          *)
(***************************************************************************)
vars == <<serverVars, clientVars, authVars, memberVars, routeVars, hookVars>>

Init ==
  /\ ServerInit /\ ClientInit /\ AuthInit /\ MemberInit /\ RoomInit /\ UserInit
  /\ HookInit

\* the server handling one request at a time
Spec == Init /\ [][StoreNext]_vars

\* one poller whose sub-fetches and purge may fail
SpecFail == Init /\ [][FailNext]_vars

\* concurrent pollers
SpecPoll == Init /\ [][PollNext]_vars

\* the polling hook of one client
SpecClient == Init /\ [][ClientNext]_vars

\* a pending timeout fires eventually (the browser's event loop)
SpecClientFair == SpecClient /\ WF_vars(\E h \in DOMAIN timers : TimerFire(h))

\* concurrent registrations
SpecAuth == Init /\ [][AuthNext]_vars

\* concurrent membership changes
SpecRooms == Init /\ [][MemberNext]_vars

\* the /rooms route: create, get, delete, with joins of one room
SpecAdmin == Init /\ [][AdminNext]_vars

\* the /users route, the user sweep and one poller
SpecUsers == Init /\ [][UsersNext]_vars

\* message writes through POST /poll and POST /messages
SpecWrite == Init /\ [][WriteNext]_vars

\* the event-stream hook of one client
SpecSSE == Init /\ [][SseNext]_vars

\* the per-room polling hook of one client, with one room change
SpecRoomMessages == Init /\ [][RmNext]_vars

\* one since-chaining poller next to message writes
SpecDelta == Init /\ [][DeltaNext]_vars

(***************************************************************************)
(* Properties                                                              *)
(***************************************************************************)
\* the `since` values the read is probed with
SinceProbes == {0, T0 - ONE_HOUR - 1, T0 - 1, T0, T0 + ONE_HOUR}

\* listSince(R, t): getMessages followed by the filter of GET /poll
ListSince(r, t) == newMessagesOf(getMessages(msgs[r], now), t)

\* C1: every message appended to room R is in the read of R filtered by t
\* exactly when its timestamp is > t and not older than now - 1 hour
C1_ListSinceIff ==
  \A r \in RoomIds : \A i \in 1..Len(appended[r]) : \A t \in SinceProbes :
    LET m == appended[r][i] IN
      (m \in Range(ListSince(r, t)))
        <=> (m.timestamp > t /\ m.timestamp >= now - ONE_HOUR)

\* a purge of one list has returned, no store operation failed in it and
\* nothing else touched the list meanwhile
PurgeReturned(p) ==
  /\ purgeLog[p].room # ""
  /\ purgeLog[p].done
  /\ ~purgeLog[p].storeFailed
  /\ ~purgeLog[p].interfered

\* C2: when deleteOldMessages returns without a failed store operation, the
\* list holds no entry older than one hour before the time of the purge
C2_PurgeLeavesNoExpired ==
  \A p \in Procs :
    PurgeReturned(p) =>
      \A i \in 1..Len(purgeLog[p].after) :
        ~(purgeLog[p].after[i].timestamp < purgeLog[p].t - ONE_HOUR)

Responds(p) == req[p].pc = "respond" /\ req'[p].pc = "done"

\* what GET /poll must answer, from what the store held at each sub-fetch
ExpectedResponse(r, t) ==
  [status |-> 200,
   messages |-> IF "messages" \in r.failed THEN <<>> ELSE r.view.messages,
   newMessages |-> IF "messages" \in r.failed THEN <<>>
                   ELSE SelectSeq(r.view.messages,
                                  LAMBDA m : m.timestamp > r.since),
   usersInRoom |-> IF "usersInRoom" \in r.failed THEN {} ELSE r.view.usersInRoom,
   onlineUsers |-> IF "allUsers" \in r.failed THEN {}
                   ELSE {u \in r.view.allUsers : u.lastSeen > t - TWO_MINUTES},
   rooms |-> IF "rooms" \in r.failed THEN {} ELSE r.view.rooms,
   timestamp |-> t]

\* C3: GET /poll always answers 200 with the time of the answer as timestamp;
\* a failed sub-fetch or a failed purge empties only its own field, every
\* other field carries what its fetch read from the store
C3_PollDegradesPerField ==
  [][\A p \in Procs : Responds(p) => resp'[p] = ExpectedResponse(req[p], now)]_vars

\* C3 witness: an answer in which only the user fetch failed, after a failed
\* purge, still carrying messages and rooms
C3_Witness ==
  \E p \in Procs :
    /\ req[p].pc = "done"
    /\ req[p].failed = {"cleanup", "allUsers"}
    /\ resp[p].status = 200
    /\ resp[p].messages # <<>>
    /\ resp[p].rooms # {}
    /\ resp[p].usersInRoom # {}
    /\ resp[p].onlineUsers = {}

\* C4: no two purges start less than CLEANUP_INTERVAL apart
C4_PurgeOncePerInterval ==
  \A i, j \in 1..Len(purgeStarts) :
    i < j => purgeStarts[j] - purgeStarts[i] >= CLEANUP_INTERVAL

\* C5: the polling hook never has two GET /poll requests in flight
C5_NoOverlappingPolls == Cardinality(inflight) <= 1

\* a poll has completed in this step
Completes == lastDone' # lastDone

\* exactly one timeout is pending, it is the one the hook holds, and its
\* delay is the fixed interval
OneRearmTimer ==
  /\ Cardinality(DOMAIN timers) = 1
  /\ pollTimeoutRef \in DOMAIN timers
  /\ timers[pollTimeoutRef] = INTERVAL

\* C6: while the hook is mounted, every completed poll (200, non-OK status or
\* failed fetch) leaves exactly one pending re-arm timeout with the delay
\* `interval`, and while that timeout is pending another poll is issued later
\* (unless the hook is unmounted or the bound on polls is reached)
C6_RearmAfterEveryPoll ==
  /\ [][(cMounted /\ Completes) => OneRearmTimer']_vars
  /\ \A n \in 1..MaxPolls :
       (cMounted /\ lastDone.id # 0 /\ DOMAIN timers # {} /\ started = n)
         ~> (started > n \/ ~cMounted \/ started = MaxPolls)

\* C6 witness: a failed poll has completed, one timeout with the fixed delay
\* is pending, and an earlier timeout has already issued a poll
C6_Witness ==
  /\ cMounted
  /\ lastDone.outcome \in {"status", "throw"}
  /\ lastDone.id > 1
  /\ OneRearmTimer
  /\ inflight = {}

\* the step is taken by registration slot a and is not the 500 answer
AuthStep(a) == areq'[a] # areq[a] /\ areq'[a].status # 500

\* C7: a registration from an address that has an account answers with that
\* account's id and username and creates nothing, whatever name was sent
C7_KnownAddressReturnsAccount ==
  [][\A a \in AuthSlots :
       (areq[a].pc = "lookup" /\ AuthStep(a) /\ getUserByIp(areq[a].ip) # <<>>)
         => LET acc == getUserByIp(areq[a].ip)[1] IN
              /\ areq'[a].pc = "done"
              /\ areq'[a].status = 200
              /\ areq'[a].user = [id |-> acc.id, username |-> acc.username]
              /\ DOMAIN accounts' = DOMAIN accounts
              /\ ipToUser' = ipToUser
              /\ \A k \in DOMAIN accounts :
                   /\ accounts'[k].id = accounts[k].id
                   /\ accounts'[k].username = accounts[k].username
                   /\ accounts'[k].ipAddress = accounts[k].ipAddress]_vars

\* C7 witness: a known address sent an invalid name and got its account back
C7_Witness ==
  \E a \in AuthSlots :
    /\ areq[a].pc = "done"
    /\ areq[a].status = 200
    /\ ~ValidUsername(areq[a].username)
    /\ areq[a].user.id \in DOMAIN accounts
    /\ areq[a].user.username = accounts[areq[a].user.id].username
    /\ Cardinality(DOMAIN accounts) = 1

\* C8: at most one account is bound to any network address
C8_OneAccountPerAddress ==
  \A ip \in Addresses :
    Cardinality({k \in DOMAIN accounts : accounts[k].ipAddress = ip}) <= 1

\* a display name that is missing, not a string, shorter than 3 or longer than 20
BadDisplayName(u) ==
  \/ u.kind = "missing"
  \/ u.kind # "string"
  \/ Len(u.chars) < 3
  \/ Len(u.chars) > 20

\* C9: a registration from an unknown address with a bad display name is
\* answered 400 without reaching createUserAccount; accounts and address
\* mapping stay as they were
C9_BadNameRejected ==
  [][\A a \in AuthSlots :
       (areq[a].pc = "lookup" /\ AuthStep(a) /\ getUserByIp(areq[a].ip) = <<>>
          /\ BadDisplayName(areq[a].username))
         => /\ areq'[a].pc = "done"
            /\ areq'[a].status = 400
            /\ accounts' = accounts
            /\ ipToUser' = ipToUser]_vars

\* C9 witness: a 21-character name from an unknown address was answered 400
C9_Witness ==
  \E a \in AuthSlots :
    /\ areq[a].pc = "done"
    /\ areq[a].status = 400
    /\ Len(areq[a].username.chars) = USERNAME_MAX + 1
    /\ areq[a].ip \notin DOMAIN ipToUser

\* C10: join(R, u) for a u that is already a member of R answers success and
\* changes neither the room records nor the messages
C10_SecondJoinIsNoOp ==
  [][\A j \in MemberSlots :
       (/\ mreq[j].pc = "read" /\ mreq'[j] # mreq[j]
        /\ mreq[j].action = "join"
        /\ mreq[j].roomId \in DOMAIN rooms
        /\ mreq[j].userId \in Range(rooms[mreq[j].roomId].members))
         => /\ mreq'[j].pc = "done"
            /\ mreq'[j].status = 200
            /\ rooms' = rooms
            /\ msgs' = msgs]_vars

\* C10 witness: u2 joined general (one system message), and a second join of
\* u2 has been answered as a no-op
C10_Witness ==
  \E j \in MemberSlots :
    /\ mreq[j].pc = "done"
    /\ mreq[j].noop
    /\ mreq[j].action = "join"
    /\ mreq[j].userId = "u2"
    /\ mreq[j].status = 200
    /\ rooms["general"].members = <<"u1", "u2">>
    /\ Len(msgs["general"]) = 1

\* slot j writes a join whose member list was read from the room as it is now
JoinWrites(j) ==
  /\ mreq[j].pc = "write" /\ mreq'[j].pc = "done"
  /\ mreq[j].action = "join"
  /\ mreq[j].roomId \in DOMAIN rooms
  /\ mreq[j].members = rooms[mreq[j].roomId].members

\* C11: join(R, u) of a non-member adds exactly u to R's members and appends
\* exactly one system message "<name> has joined the room" to R when the
\* display name of u is known; when it is not, the membership is recorded and
\* no message is appended
C11_JoinAddsMemberAndAnnounces ==
  [][\A j \in MemberSlots :
       JoinWrites(j) =>
         LET R == mreq[j].roomId
             u == mreq[j].userId
         IN /\ mreq'[j].status = 200
            /\ rooms' = [rooms EXCEPT ![R].members = Append(@, u)]
            /\ \A q \in RoomIds \ {R} : msgs'[q] = msgs[q]
            /\ IF u \in DOMAIN users
               THEN /\ Len(msgs'[R]) = Len(msgs[R]) + 1
                    /\ SubSeq(msgs'[R], 1, Len(msgs[R])) = msgs[R]
                    /\ msgs'[R][Len(msgs'[R])].type = "system"
                    /\ msgs'[R][Len(msgs'[R])].roomId = R
                    /\ msgs'[R][Len(msgs'[R])].content
                         = SystemText(users[u].name, "join")
               ELSE msgs'[R] = msgs[R]]_vars

\* C11 witness: Bob (u2) and the unknown u3 both joined general; one system
\* message, Bob's, was appended
C11_Witness ==
  /\ Range(rooms["general"].members) = {"u1", "u2", "u3"}
  /\ Len(msgs["general"]) = 1
  /\ msgs["general"][1].content = "Bob has joined the room"
  /\ \A j \in MemberSlots : mreq[j].pc \in {"idle", "done"}

\* slot k runs createChatroom and the call returns
Creates(k) ==
  rreq[k].pc = "create" /\ rreq'[k].pc = "done" /\ rreq'[k].status # 500

\* C12: creating a room whose id exists is answered 400 and leaves the room
\* records and the messages as they were
C12_DuplicateRoomRejected ==
  [][\A k \in RoomSlots :
       (Creates(k) /\ rreq[k].id \in DOMAIN rooms)
         => /\ rreq'[k].status = 400
            /\ rooms' = rooms
            /\ msgs' = msgs]_vars

\* C12 witness: "Dev" was refused because the room "dev" has the id dev; the
\* room still has its name and its message
C12_Witness ==
  \E k \in RoomSlots :
    /\ rreq[k].pc = "done" /\ rreq[k].op = "create" /\ rreq[k].status = 400
    /\ rreq[k].data # NoRoom
    /\ rreq[k].data[1].name = "Dev"
    /\ "dev" \in DOMAIN rooms
    /\ rooms["dev"].name = "dev"
    /\ rooms["dev"].createdBy = "u1"
    /\ Len(msgs["dev"]) = 1

\* C13: a room created from given data is stored, and returned by get(id),
\* with exactly that id, name, description, creator and visibility, no
\* members and the server's time as createdAt; a stored room changes only by
\* a membership write, and disappears only by a delete
C13_RoomRoundTrip ==
  [][/\ \A k \in RoomSlots :
          (Creates(k) /\ rreq'[k].status = 200) =>
            LET d == rreq[k].data[1] IN
              /\ d.id \in DOMAIN rooms'
              /\ rooms'[d.id] = [id |-> d.id, name |-> d.name,
                                 description |-> d.description,
                                 createdBy |-> d.createdBy,
                                 isPrivate |-> d.isPrivate, members |-> <<>>,
                                 createdAt |-> now]
              /\ rreq'[k].room = <<rooms'[d.id]>>
     /\ \A k \in RoomSlots :
          (rreq[k].pc = "idle" /\ rreq'[k].pc = "done" /\ rreq'[k].op = "get"
             /\ rreq'[k].id \in DOMAIN rooms)
            => rreq'[k].status = 200 /\ rreq'[k].room = <<rooms[rreq'[k].id]>>
     /\ \A id \in DOMAIN rooms :
          /\ id \notin DOMAIN rooms'
               => \E k \in RoomSlots : rreq[k].pc = "delete" /\ rreq'[k].pc = "done"
          /\ (id \in DOMAIN rooms' /\ rooms'[id] # rooms[id])
               => /\ \E j \in MemberSlots : mreq[j].pc = "write" /\ mreq'[j].pc = "done"
                  /\ [rooms'[id] EXCEPT !.members = <<>>]
                       = [rooms[id] EXCEPT !.members = <<>>]]_vars

\* C13 witness: the room created as "Dev" by u2 has been read back by id
C13_Witness ==
  \E k \in RoomSlots :
    /\ rreq[k].pc = "done" /\ rreq[k].op = "get" /\ rreq[k].status = 200
    /\ rreq[k].room # NoRoom
    /\ rreq[k].room[1] = [id |-> "dev", name |-> "Dev", description |-> "talk",
                          createdBy |-> "u2", isPrivate |-> TRUE,
                          members |-> <<>>, createdAt |-> now]

\* C14: a DELETE by someone other than the room's creator is answered 403 and
\* changes nothing; a room disappears only in a DELETE whose userId is the
\* createdBy of the room that disappears
C14_OnlyCreatorDeletes ==
  [][/\ \A k \in RoomSlots :
          (rreq[k].pc = "check" /\ rreq'[k].pc = "done" /\ rreq'[k].status # 500
             /\ rreq[k].id \in DOMAIN rooms
             /\ rooms[rreq[k].id].createdBy # rreq[k].userId)
            => rreq'[k].status = 403 /\ rooms' = rooms /\ msgs' = msgs
     /\ \A id \in DOMAIN rooms \ DOMAIN rooms' :
          \E k \in RoomSlots :
            /\ rreq[k].pc = "delete" /\ rreq'[k].pc = "done"
            /\ rreq[k].id = id
            /\ rooms[id].createdBy = rreq[k].userId]_vars

\* lastSeen is more than two but not more than five minutes before t
Lingering(lastSeen, t) ==
  t - lastSeen > TWO_MINUTES /\ t - lastSeen <= FIVE_MINUTES

\* C15: a user last seen more than 2 and at most 5 minutes ago is left out of
\* the online list of GET /poll, GET /poll never changes the directory, and
\* the sweep with its 5-minute default keeps that user
C15_LingeringUserOfflineButKept ==
  [][/\ \A p \in Procs :
          (req[p].pc = "respond" /\ req'[p].pc = "done") =>
            \A u \in req[p].view.allUsers :
              Lingering(u.lastSeen, now) => u \notin resp'[p].onlineUsers
     /\ (req' # req) => users' = users
     /\ ureq.pc = "sweep" =>
          \A u \in DOMAIN users :
            Lingering(users[u].lastSeen, ureq.now)
              => u \in DOMAIN users' /\ users'[u] = users[u]]_vars

\* C15 witness: three minutes after Bob was last seen, a sweep has listed the
\* directory with Bob in it and a poll has answered with Alice online, Bob not
C15_Witness ==
  /\ ureq.pc = "done" /\ ureq.op = "get"
  /\ \E u \in ureq.list : u.id = "u2" /\ now - u.lastSeen = MIN3
  /\ req[1].pc = "done"
  /\ resp[1].status = 200
  /\ {u.id : u \in resp[1].onlineUsers} = {"u1"}
  /\ "u2" \in DOMAIN users

\* C16: DELETE /users for a user that is not in the directory, the store not
\* failing, is answered 200 and leaves the directory as it was
C16_RemoveAbsentUserSucceeds ==
  [][(ureq.pc = "idle" /\ ureq'.pc = "done" /\ ureq'.op = "delete"
        /\ ureq'.id # "" /\ ureq'.id \notin DOMAIN users
        /\ ~ureq'.failed)
       => ureq'.status = 200 /\ users' = users]_vars

\* C16 witness: Bob was removed, and a second removal of Bob was answered 200
C16_Witness ==
  /\ ureq.pc = "done" /\ ureq.op = "delete" /\ ureq.id = "u2"
  /\ ureq.absent
  /\ ureq.status = 200
  /\ DOMAIN users = {"u1"}

\* the body lacks what a message must have
Refused(data) ==
  (data.content = "" /\ data.file = "") \/ data.sender = "" \/ data.senderId = ""

\* C17: a message body with neither content nor file, or without sender name
\* or sender id, sent to POST /poll is answered 400; a 400 answer appends and
\* publishes nothing; addMessage failing is answered 500
C17_InvalidMessageRejected ==
  [][/\ \A data \in WriteInputs :
          (Refused(data) /\ PostMessageBegin(data))
            => post'.pc = "done" /\ post'.status = 400
     /\ (post.pc = "idle" /\ post'.status = 400)
          => msgs' = msgs /\ appended' = appended /\ published' = published
     /\ (post.pc \in {"rpush", "publish"} /\ post'.pc = "done"
           /\ published' = published)
          => post'.status = 500]_vars

\* C17 witness: after one accepted message, a body was refused with 400 and
\* the store still holds that one message
C17_Witness ==
  /\ post.pc = "done" /\ post.status = 400
  /\ TotalMsgs = 1
  /\ Len(msgs["general"]) = 1
  /\ published = 1

\* the stored form of a body that came without id and timestamp
Stamped(data, room) ==
  [data EXCEPT !.id = ToString(now), !.timestamp = now, !.type = "message",
               !.roomId = room]

\* C18: a valid message sent without id and timestamp gets the server's time
\* as timestamp and as id, goes to its room (general when POST /poll gets no
\* room), is appended once, and a full read of the room then returns its
\* former result plus exactly this message
C18_MessageStoredOnce ==
  [][/\ \A data \in WriteInputs :
          (~Refused(data) /\ data.id = "" /\ data.timestamp = 0)
            => /\ PostMessageBegin(data)
                    => /\ post'.pc = "rpush"
                       /\ post'.message
                            = Stamped(data, IF data.roomId = "" THEN DEFAULT_ROOM
                                            ELSE data.roomId)
               /\ (data.roomId # "" /\ MessagesPostBegin(data))
                    => /\ post'.pc = "rpush"
                       /\ post'.message = Stamped(data, data.roomId)
     /\ (post.pc = "rpush" /\ post'.pc = "publish")
          => LET m == post.message IN
               /\ msgs' = [msgs EXCEPT ![m.roomId] = Append(@, m)]
               /\ getMessages(msgs'[m.roomId], now)
                    = Append(getMessages(msgs[m.roomId], now), m)
     /\ post.pc \notin {"rpush"} => msgs' = msgs]_vars

\* C18 witness: "hi" sent without id, timestamp and room is the one message
\* a full read of general returns
C18_Witness ==
  /\ post.pc = "done" /\ post.status = 200
  /\ Len(getMessages(msgs["general"], now)) = 1
  /\ LET m == getMessages(msgs["general"], now)[1] IN
       /\ m.content = "hi"
       /\ m.id = ToString(m.timestamp)
       /\ m.type = "message"
       /\ m.roomId = "general"
  /\ TotalMsgs = 1

\* C19: every stored message lies in the list of the room its roomId names,
\* has a non-empty roomId, and has content or a file
C19_MessageHasRoomAndPayload ==
  \A R \in RoomIds : \A i \in 1..Len(msgs[R]) :
    /\ msgs[R][i].roomId = R
    /\ msgs[R][i].roomId # ""
    /\ (msgs[R][i].content # "" \/ msgs[R][i].file # "")

\* C19 witness: a message with a file and no content is stored in general,
\* another message in dev
C19_Witness ==
  /\ \E i \in 1..Len(msgs["general"]) :
       msgs["general"][i].content = "" /\ msgs["general"][i].file = "f.png"
  /\ Len(msgs["dev"]) >= 1

\* C20: no two messages stored in the same room have the same id
C20_MessageIdsUnique ==
  \A R \in RoomIds : \A i, j \in 1..Len(msgs[R]) :
    i # j => msgs[R][i].id # msgs[R][j].id

\* C21: once a message of sender S has been accepted (200), the directory
\* holds S with a lastSeen not older than the server time of that send (the
\* timestamp the handler put on the message)
C21_SendRefreshesPresence ==
  post.pc = "done" /\ post.status = 200 =>
    LET m == post.message IN
      /\ m.senderId \in DOMAIN users
      /\ users[m.senderId].lastSeen >= m.timestamp

\* a step of a handler that reads presence: GET /users or GET /poll
ReadsPresence ==
  \/ UsersGetBegin \/ SweepStep \/ UsersGetList
  \/ PollBegin(1, 0, "") \/ CleanupLrange(1) \/ FetchMessages(1, FALSE)
  \/ FetchUsersInRoom(1, FALSE) \/ FetchUsers(1, FALSE)
  \/ FetchRooms(1, FALSE) \/ Respond(1)

\* C22: no step of GET /poll or GET /users adds, removes or modifies a
\* directory entry (no request handler evicts inactive users)
C22_ReadsLeaveDirectory == [][ReadsPresence => users' = users]_vars

\* C23: a membership write is last-writer-wins: it reports success and sets
\* the room's member list to the one computed from the list this operation
\* read, whatever another operation wrote in between
C23_LastWriterWins ==
  [][\A j \in MemberSlots :
       (mreq[j].pc = "write" /\ mreq'[j].pc = "done") =>
         LET r == mreq[j] IN
           /\ mreq'[j].status = 200
           /\ rooms'[r.roomId].members =
                IF r.action = "join" THEN Append(r.members, r.userId)
                ELSE Without(r.members, r.userId)]_vars

\* C23 witness: the joins of u2 and of u3 to general both read the member
\* list before either wrote, both were answered 200, and the list holds
\* only one of the two
C23_Witness ==
  /\ \A j \in MemberSlots :
       /\ mreq[j].pc = "done" /\ mreq[j].status = 200 /\ ~mreq[j].noop
       /\ mreq[j].action = "join" /\ mreq[j].roomId = "general"
       /\ mreq[j].members = <<"u1">>
  /\ {mreq[j].userId : j \in MemberSlots} = {"u2", "u3"}
  /\ Len(rooms["general"].members) = 2

\* the heartbeat timeout fires
HeartbeatFires ==
  \E h \in DOMAIN sseTimers, throws \in BOOLEAN :
    sseTimers[h].fn = "heartbeat" /\ SseTimerFire(h, throws)

\* an open connection is never older than 30 seconds past the last reset of
\* the heartbeat timeout
C24_LivenessTimeout ==
  eventSource \in sseOpen => sseClock - sseLog.lastReset <= HEARTBEAT_TIMEOUT

\* the heartbeat timeout closes the connection and connects again
C24_TimeoutReconnects ==
  HeartbeatFires => /\ eventSource \notin sseOpen' \/ eventSource' # eventSource
                    /\ sseLog'.connects = sseLog.connects + 1

\* a connection error closes the connection and arms the reconnect
C24_ErrorCloses ==
  (\E c \in sseOpen : OnError(c)) =>
    /\ sseOpen' = {}
    /\ sseTimers'[reconnectTimeout'] =
         [fn |-> "reconnect", due |-> sseClock + RECONNECT_DELAY]

\* the connect that follows a connection error comes 5 seconds after it
C24_FixedDelay ==
  (sseLog.errorAt # -1 /\ sseLog'.connects = sseLog.connects + 1) =>
    sseClock = sseLog.errorAt + RECONNECT_DELAY

\* C24: without a registered event within 30 seconds of the last reset of
\* the heartbeat timeout the client closes its connection and opens a new
\* one; after a connection error it closes the connection and connects
\* again after exactly 5 seconds
C24_TimeoutAndErrorReconnect ==
  /\ []C24_LivenessTimeout
  /\ [][C24_TimeoutReconnects]_vars
  /\ [][C24_ErrorCloses]_vars
  /\ [][C24_FixedDelay]_vars

\* C30: at most one connection is open and at most one reconnect timeout is
\* pending at any time, and once the cleanup has run no connection is open
\* and no timeout is pending
C30_OneConnectionOneReconnect ==
  /\ Cardinality(sseOpen) <= 1
  /\ Cardinality({h \in DOMAIN sseTimers : sseTimers[h].fn = "reconnect"}) <= 1
  /\ sseLog.cleaned => sseOpen = {} /\ DOMAIN sseTimers = {}

\* C30 witness: after an earlier reconnect and two arrivals (events or
\* errors), the cleanup ran while the reconnect armed by a connection error
\* was still pending
C30_Witness ==
  /\ sseLog.cleaned
  /\ sseLog.errorAt # -1
  /\ sseLog.connects >= 2
  /\ sseLog.events = MaxSseEvents
  /\ sseOpen = {}

\* the entries of a list that are not expired at time t, in list order
Fresh(list, t) == SelectSeq(list, LAMBDA m : m.timestamp >= t - ONE_HOUR)

\* C25: when deleteOldMessages has returned and nothing else touched the
\* list meanwhile, every entry that was not expired at the start of the
\* purge is still in the list, in the same relative order
C25_PurgeKeepsFresh ==
  \A p \in Procs :
    (purgeLog[p].room # "" /\ purgeLog[p].done /\ ~purgeLog[p].interfered) =>
      Fresh(purgeLog[p].after, purgeLog[p].t) = Fresh(purgeLog[p].before, purgeLog[p].t)

\* C26: every message of the room that is not expired and that no later poll
\* of the client can select (its timestamp is not above the client's `since`)
\* was in the newMessages of one of the client's answers
C26_DeltaComplete ==
  \A i \in 1..Len(msgs[DEFAULT_ROOM]) :
    LET m == msgs[DEFAULT_ROOM][i] IN
      (m.timestamp >= now - ONE_HOUR /\ m.timestamp <= lastPollTimestamp) =>
        m \in delivered

\* C27: lastPollTimestamp never decreases, and the messages shown are never
\* replaced by those of an answer the server built earlier than the one shown
C27_SinceAndListMonotonic ==
  [][lastPollTimestamp' >= lastPollTimestamp /\ shown' >= shown]_vars

\* C28: once the effect cleanup has run, no timeout is armed and no further
\* poll request is issued
C28_NoPollAfterTeardown ==
  [][~cMounted' => /\ DOMAIN timers' = {}
                   /\ (~cMounted => started' = started)]_vars

\* once the room is B, every request the hook issues is for B
C29_NoRequestForOldRoom ==
  (rm.roomId = "B" /\ rm'.requests # rm.requests) =>
    rm'.requests[Len(rm'.requests)] = "B"

\* once B's messages were shown, A's messages are not shown again
C29_NoOldMessagesShown == rm.shownB => rm'.messages # "A"

\* once the room is B, B's fetch loop is alive: a fetch of B is in flight or
\* a timeout that will fetch B is pending (without it B is not polled again)
C29_NewLoopAlive ==
  rm.roomId = "B" =>
    \/ \E q \in rm.inflight : q.room = "B"
    \/ \E h \in DOMAIN rm.timers : rm.timers[h] = "B"

\* C29: after the room changed from A to B the hook keeps a fetch loop for B
\* going, never issues a request for A again and never shows A's messages
\* after B's were shown, whatever the order of the answers of the old and
\* the new fetch loop
C29_RoomChangeTakesOver ==
  /\ []C29_NewLoopAlive
  /\ [][C29_NoRequestForOldRoom]_vars
  /\ [][C29_NoOldMessagesShown]_vars

====
